---------------------------- MODULE Spec2Model ----------------------------
(***************************************************************************)
(* templeffect: compiled templates with indentation handling, a            *)
(* synchronous render and an ordered streaming render.                     *)
(*                                                                         *)
(* Text is a sequence of one-character strings.  The indentation engine    *)
(* (utils.ts) is a set of operators; the streaming scheduler               *)
(* (compileStream, withBuffers, IndexedBuffer) is a state machine with one  *)
(* fiber per slot.                                                         *)
(***************************************************************************)
EXTENDS Integers, Sequences, FiniteSets, TLC

VARIABLES
    segs,         \* TemplateImpl.template: the N+1 literal segments
    vals,         \* per slot: [kind, unsafe, content]; content is the encoded text
    indent,       \* the `indent` flag of compile / compileStream (dedent template)
    minIndentOf,  \* compileStream's `const minIndent`, computed once per template
    output,       \* result of the synchronous render: <<>> or <<text>>
    applied,      \* the last indentation-engine call: [op, arg, res]
    pc,           \* the streaming invocation: "idle", "first", "running"
    spc,          \* per slot fiber: "new", "eval", "emit", "await", "flush", "done"
    ready,        \* IndexedBuffer state.ready, per slot
    deferred,     \* IndexedBuffer state.deferred is done, per slot
    buffer,       \* IndexedBuffer buffer, per slot
    queue,        \* per slot: chunks its running effect has still to emit
    lastContent,  \* compileStream's shared `lastContent`
    emitted,      \* chunks handed to emit.single, in order
    ended,        \* emit.end() has been called
    completed,    \* slot indexes in the order their evaluations completed
    defs,         \* the constructed templates: name -> [template, values, indent]
    given,        \* the parameter record the caller passes
    compiled,     \* liftImpl's `compiled` is set, per template
    streamed,     \* liftImpl's `streamed` is set, per template
    compileParametersSchemaCache,  \* the keys compileParameters has cached
    indentCache,  \* utils' indentCache: per template strings <<>> or <<minIndent>>
    runs,         \* how often compile, compileStream and the classification loop ran
    calls,        \* the invocations so far: [name, entry, params, result]
    partsIndent,  \* per template: <<>>, or <<indent>> once compileParameters has cached the
                  \* dynamicParts of the lifted template; indent is the flag their nested
                  \* encoders were built with
    other         \* the streaming state of a second invocation of the same compiled
                  \* template, whose fibers are not the ones running now

entryVars  == <<defs, given, compiled, streamed, compileParametersSchemaCache, indentCache,
                runs, calls, partsIndent>>
textVars   == <<segs, vals, indent, minIndentOf, entryVars, other>>
syncVars   == <<output, applied>>
streamVars == <<pc, spc, ready, deferred, buffer, queue, lastContent, emitted, ended, completed,
                other>>
vars       == <<segs, vals, indent, minIndentOf, output, applied, pc, spc, ready, deferred,
                buffer, queue, lastContent, emitted, ended, completed, defs, given, compiled,
                streamed, compileParametersSchemaCache, indentCache, runs, calls, partsIndent, other>>

---------------------------------------------------------------------------
(* Bounds of the model *)

\* longest single segment enumerated character by character
MaxSegLen == 5
\* largest minIndent handed to processTemplateSection on its own
MaxDedent == 3
\* deepest indentation of a line of the line-built templates
MaxIndent == 2
\* most slots of a streamed template
MaxSlots == 2

---------------------------------------------------------------------------
(* Characters and strings *)

SP  == " "
TAB == "\t"
NL  == "\n"
X   == "x"

\* /^[ \t]*/ matches these
IsSpaceOrTab(c) == c \in {SP, TAB}
\* what String.prototype.trim / trimStart strip (of the characters modelled)
IsWhitespace(c) == c \in {SP, TAB, NL}

Min(a, b) == IF a <= b THEN a ELSE b

\* Number.POSITIVE_INFINITY
POSITIVE_INFINITY == 1000000

\* String.prototype.indexOf(c, from), 1-based; 0 when absent (JavaScript's -1)
IndexOfFrom(s, c, from) ==
    LET I == {i \in from..Len(s) : s[i] = c}
    IN  IF I = {} THEN 0 ELSE CHOOSE i \in I : \A j \in I : i <= j

\* String.prototype.lastIndexOf(c), 1-based; 0 when absent
LastIndexOf(s, c) ==
    LET I == {i \in 1..Len(s) : s[i] = c}
    IN  IF I = {} THEN 0 ELSE CHOOSE i \in I : \A j \in I : i >= j

Includes(s, c) == \E i \in 1..Len(s) : s[i] = c

\* String.prototype.slice(from) with a 0-based `from`
SliceFrom(s, from) == SubSeq(s, from + 1, Len(s))

RECURSIVE Split(_)
\* String.prototype.split('\n')
Split(s) ==
    LET i == IndexOfFrom(s, NL, 1)
    IN  IF i = 0 THEN <<s>>
        ELSE <<SubSeq(s, 1, i - 1)>> \o Split(SubSeq(s, i + 1, Len(s)))

RECURSIVE Join(_)
\* Array.prototype.join('\n')
Join(lines) ==
    IF Len(lines) = 0 THEN <<>>
    ELSE IF Len(lines) = 1 THEN lines[1]
    ELSE lines[1] \o <<NL>> \o Join(Tail(lines))

RECURSIVE Concat(_)
\* Array.prototype.join('')
Concat(parts) ==
    IF Len(parts) = 0 THEN <<>> ELSE parts[1] \o Concat(Tail(parts))

\* number of leading characters of s that satisfy the class test
LeadingSpaceOrTab(s) ==
    LET I == {i \in 1..Len(s) : ~IsSpaceOrTab(s[i])}
    IN  IF I = {} THEN Len(s) ELSE (CHOOSE i \in I : \A j \in I : i <= j) - 1

LeadingWhitespace(s) ==
    LET I == {i \in 1..Len(s) : ~IsWhitespace(s[i])}
    IN  IF I = {} THEN Len(s) ELSE (CHOOSE i \in I : \A j \in I : i <= j) - 1

\* String.prototype.trimStart()
TrimStart(s) == SliceFrom(s, LeadingWhitespace(s))

\* slice.trim() is a non-empty string
IsNonBlank(s) == \E i \in 1..Len(s) : ~IsWhitespace(s[i])

---------------------------------------------------------------------------
(* Indentation engine: utils.ts *)

\* line.match(SPACE_OR_TABS)?.[0] ?? ''   (lineIndentCache memoizes it by content)
getLineIndent(line) == SubSeq(line, 1, LeadingSpaceOrTab(line))

RECURSIVE findMinIndentLoop(_, _, _)
\* the while loop of findMinIndent; `start` is the 1-based start of a line
findMinIndentLoop(template, start, min) ==
    IF start > Len(template) THEN min
    ELSE LET end   == IndexOfFrom(template, NL, start)
             slice == SubSeq(template, start, IF end = 0 THEN Len(template) ELSE end - 1)
             ind   == Len(getLineIndent(slice))
         IN  IF IsNonBlank(slice) /\ ind = 0 THEN 0
             ELSE LET min2 == IF IsNonBlank(slice) THEN Min(min, ind) ELSE min
                  IN  IF end = 0 THEN min2
                      ELSE findMinIndentLoop(template, end + 1, min2)

findMinIndent(template) ==
    IF ~Includes(template, NL) THEN 0
    ELSE LET min == findMinIndentLoop(template, IndexOfFrom(template, NL, 1) + 1,
                                      POSITIVE_INFINITY)
         IN  IF min = POSITIVE_INFINITY THEN 0 ELSE min

\* lines.reduce((min, line) => Math.min(min, indent of line), Number.POSITIVE_INFINITY)
reduceMinIndent(lines) ==
    LET I == {Len(getLineIndent(lines[j])) : j \in 1..Len(lines)}
    IN  IF I = {} THEN POSITIVE_INFINITY ELSE CHOOSE m \in I : \A n \in I : m <= n

\* a dedent that takes the minimum over every line, the first included
dedentByAllLines(input) ==
    LET lines == Split(input)
    IN  IF Len(lines) < 2 THEN TrimStart(input)
        ELSE LET minIndent == reduceMinIndent(lines)
             IN  Join([index \in 1..Len(lines) |->
                          IF index = 1 THEN TrimStart(lines[index])
                          ELSE SliceFrom(lines[index], minIndent)])

\* the standalone dedent(input) of utils
dedent(input) ==
    LET lines == Split(input)
    IN  IF Len(lines) < 2 THEN TrimStart(input)
        ELSE LET minIndent == reduceMinIndent(Tail(lines))
             IN  Join([index \in 1..Len(lines) |->
                          IF index = 1 THEN TrimStart(lines[index])
                          ELSE SliceFrom(lines[index], minIndent)])

RECURSIVE getMinIndentLoop(_, _, _)
\* the for loop of getMinIndent
getMinIndentLoop(template, i, min) ==
    IF i > Len(template) THEN min
    ELSE LET ind == findMinIndent(template[i])
         IN  IF ind = 0 THEN 0
             ELSE getMinIndentLoop(template, i + 1, Min(min, ind))

getMinIndent(template) ==
    IF Len(template) = 1 /\ ~Includes(template[1], NL) THEN 0
    ELSE LET min == getMinIndentLoop(template, 1, POSITIVE_INFINITY)
         IN  IF min = POSITIVE_INFINITY THEN 0 ELSE min

\* processLine without the comparison of the line's indent with minIndent
processLineAlwaysSlice(line, minIndent) ==
    IF line = <<>> \/ minIndent = 0 THEN line
    ELSE SliceFrom(line, minIndent)

processLine(line, minIndent) ==
    IF line = <<>> \/ minIndent = 0 THEN line
    ELSE IF Len(getLineIndent(line)) >= minIndent
         THEN SliceFrom(line, minIndent)
         ELSE TrimStart(line)

processTemplateSection(templatePart, minIndent) ==
    IF ~Includes(templatePart, NL) \/ minIndent = 0 THEN templatePart
    ELSE LET lines == Split(templatePart)
         IN  Join([i \in 1..Len(lines) |->
                     IF i = 1 THEN lines[1] ELSE processLine(lines[i], minIndent)])

\* toString(value): a string as it is, an Unsafe by its content
toString(value) == value.content

\* the indentation the last line of previousContent starts with
currentIndentOf(previousContent) ==
    LET lastNewlineIndex == LastIndexOf(previousContent, NL)
    IN  IF lastNewlineIndex = 0
        THEN getLineIndent(previousContent)
        ELSE getLineIndent(SubSeq(previousContent, lastNewlineIndex + 1,
                                  Len(previousContent)))

\* valueLines.map((line, index) => index === 0 ? line : currentIndent + line).join('\n')
reindent(valueString, currentIndent) ==
    LET valueLines == Split(valueString)
    IN  Join([i \in 1..Len(valueLines) |->
                IF i = 1 THEN valueLines[1] ELSE currentIndent \o valueLines[i]])

processValue(value, previousContent) ==
    IF value.unsafe THEN value.content
    ELSE IF ~Includes(value.content, NL) THEN value.content
    ELSE LET currentIndent == currentIndentOf(previousContent)
         IN  IF currentIndent = <<>> THEN value.content
             ELSE reindent(value.content, currentIndent)

RECURSIVE processSimpleLoop(_, _, _)
processSimpleLoop(template, values, i) ==
    IF i > Len(values) THEN <<>>
    ELSE toString(values[i]) \o template[i + 1] \o processSimpleLoop(template, values, i + 1)

\* every line after the first loses one leading character of indentation
processSimpleTemplateDedented(template, values) ==
    processTemplateSection(template[1] \o processSimpleLoop(template, values, 1), 1)

processSimpleTemplate(template, values) ==
    template[1] \o processSimpleLoop(template, values, 1)

RECURSIVE processDedentLoop(_, _, _, _, _)
\* the for loop of processDedentTemplate, carrying lastContent
processDedentLoop(template, values, minIndent, i, lastContent_) ==
    IF i > Len(values) THEN <<>>
    ELSE LET valueStr    == processValue(values[i], lastContent_)
             nextSection == processTemplateSection(template[i + 1], minIndent)
         IN  valueStr \o nextSection
               \o processDedentLoop(template, values, minIndent, i + 1, nextSection)

processDedentTemplate(template, values, minIndent) ==
    IF minIndent = 0 THEN processSimpleTemplate(template, values)
    ELSE LET firstPart == processTemplateSection(template[1], minIndent)
         IN  firstPart \o processDedentLoop(template, values, minIndent, 1, firstPart)

\* processTemplate without its two fast paths
processTemplateNoFastPath(template, values, shouldDedent) ==
    IF shouldDedent
    THEN LET minIndent == getMinIndent(template)
             firstPart == processTemplateSection(template[1], minIndent)
         IN  firstPart \o processDedentLoop(template, values, minIndent, 1, firstPart)
    ELSE processSimpleTemplate(template, values)

\* indentCache only memoizes getMinIndent(template) per template
processTemplate(template, values, shouldDedent) ==
    IF Len(template) = 1 THEN template[1]
    ELSE IF Len(values) = 0 THEN Concat(template)
    ELSE IF shouldDedent
         THEN processDedentTemplate(template, values, getMinIndent(template))
         ELSE processSimpleTemplate(template, values)

---------------------------------------------------------------------------
(* Per-chunk indentation of the streaming render: utils.ts, streaming part *)

\* previousContent is <<>> for null and <<text>> for a string
processTemplatePart(templatePart, minIndent, shouldDedent, isFirstLine, previousContent) ==
    IF ~shouldDedent \/ minIndent = 0 THEN templatePart
    ELSE IF ~Includes(templatePart, NL) THEN templatePart
    ELSE LET lines == Split(templatePart)
         IN  IF /\ isFirstLine
                /\ previousContent # <<>>
                /\ previousContent[1] # <<>>
                /\ Includes(previousContent[1], NL)
             THEN LET currentIndent == currentIndentOf(previousContent[1])
                  IN  Join([i \in 1..Len(lines) |->
                        IF i = 1 THEN lines[1]
                        ELSE IF ~IsNonBlank(lines[i]) THEN lines[i]
                        ELSE IF Len(getLineIndent(lines[i])) >= minIndent
                             THEN currentIndent \o SliceFrom(lines[i], minIndent)
                             ELSE currentIndent \o TrimStart(lines[i])])
             ELSE Join([i \in 1..Len(lines) |->
                        IF i = 1 THEN lines[1] ELSE processLine(lines[i], minIndent)])

processValuePart(value, minIndent, shouldDedent, previousContent) ==
    IF value.unsafe THEN value.content
    ELSE IF ~Includes(value.content, NL) \/ ~shouldDedent THEN value.content
    ELSE LET currentIndent == currentIndentOf(previousContent)
         IN  IF currentIndent = <<>> THEN value.content
             ELSE reindent(value.content, currentIndent)

---------------------------------------------------------------------------
(* Templates the checks draw from *)

Chars == {SP, TAB, NL, X}

\* every text of at most n characters
StringsUpTo(n) == UNION {[1..k -> Chars] : k \in 0..n}

Spaces(k) == [i \in 1..k |-> SP]

\* a line: k spaces, then nothing or a visible character
Lines == {Spaces(k) \o b : k \in 0..MaxIndent, b \in {<<>>, <<X>>}}

\* segments of one or two such lines
LineSegments == Lines \cup {l1 \o <<NL>> \o l2 : l1 \in Lines, l2 \in Lines}

\* an encoded slot value: a string, or an Unsafe with its content
StringValue(text) == [kind |-> "dynamic", unsafe |-> FALSE, content |-> text]
UnsafeValue(text) == [kind |-> "dynamic", unsafe |-> TRUE, content |-> text]

TextValues == {StringValue(<<X>>), StringValue(<<X, NL, X>>), UnsafeValue(<<X, NL, X>>)}

NoCall == [op |-> "none"]

\* an invocation of the streamed template that has not been started
NoInvocation ==
    [pc |-> "idle", spc |-> <<>>, ready |-> <<>>, deferred |-> <<>>, buffer |-> <<>>,
     queue |-> <<>>, lastContent |-> <<>>, emitted |-> <<>>, ended |-> FALSE,
     completed |-> <<>>]

StreamIdle ==
    /\ other = NoInvocation
    /\ pc = "idle"
    /\ spc = <<>>
    /\ ready = <<>>
    /\ deferred = <<>>
    /\ buffer = <<>>
    /\ queue = <<>>
    /\ lastContent = <<>>
    /\ emitted = <<>>
    /\ ended = FALSE
    /\ completed = <<>>

\* no template has been constructed through template() / dedent()
NoEntryPoints ==
    /\ defs = <<>>
    /\ given = <<>>
    /\ compiled = <<>>
    /\ streamed = <<>>
    /\ compileParametersSchemaCache = {}
    /\ indentCache = <<>>
    /\ runs = <<>>
    /\ calls = <<>>
    /\ partsIndent = <<>>

---------------------------------------------------------------------------
(* The synchronous render and the indentation engine on its own *)

InitText ==
    /\ \/ /\ segs \in {<<s>> : s \in StringsUpTo(MaxSegLen)}
          /\ vals = <<>>
       \/ /\ segs \in {<<a, b>> : a \in LineSegments, b \in LineSegments}
          /\ vals \in {<<v>> : v \in TextValues}
    /\ indent \in BOOLEAN
    /\ minIndentOf = getMinIndent(segs)
    /\ output = <<>>
    /\ applied = NoCall
    /\ StreamIdle
    /\ NoEntryPoints

\* compile(template, indent)(params): encode every dynamic slot, then
\* utils.processTemplate(template, computedStrings, indent)
Render ==
    /\ output = <<>>
    /\ output' = <<processTemplate(segs, vals, indent)>>
    /\ UNCHANGED <<textVars, applied, streamVars>>

\* utils.getMinIndent(templateStrings)
CallGetMinIndent ==
    /\ applied' = [op |-> "getMinIndent", res |-> getMinIndent(segs)]
    /\ applied' # applied
    /\ UNCHANGED <<textVars, output, streamVars>>

\* processTemplateSection(template[k], minIndent) for any minIndent
CallProcessTemplateSection ==
    \E k \in 1..Len(segs), m \in 0..MaxDedent :
        /\ applied' = [op |-> "processTemplateSection", part |-> segs[k], minIndent |-> m,
                       res |-> processTemplateSection(segs[k], m)]
        /\ applied' # applied
        /\ UNCHANGED <<textVars, output, streamVars>>

\* dedent(input) for a segment of the template or for its segments joined by line breaks
CallDedent ==
    \E input \in {segs[k] : k \in 1..Len(segs)} \cup {Join(segs)} :
        /\ applied' = [op |-> "dedent", input |-> input, res |-> dedent(input)]
        /\ applied' # applied
        /\ UNCHANGED <<textVars, output, streamVars>>

NextText == Render \/ CallGetMinIndent \/ CallProcessTemplateSection \/ CallDedent

SpecText == InitText /\ [][NextText]_vars

---------------------------------------------------------------------------
(* Reference notions the claims are stated with *)

\* the lines of segment k that start a line of the template: all but its first
LineStarts(template, k) == 2..Len(Split(template[k]))

\* <<k, j>>: line j of segment k is non-blank and is not the first line of the template
SpecQualifying(template) ==
    {kj \in UNION {{<<k, j>> : j \in 1..Len(Split(template[k]))} : k \in 1..Len(template)} :
        /\ ~(kj[1] = 1 /\ kj[2] = 1)
        /\ IsNonBlank(Split(template[kj[1]])[kj[2]])}

\* <<k, j>>: line j of segment k is non-blank and starts a line of the template
StartQualifying(template) ==
    {kj \in SpecQualifying(template) : kj[2] >= 2}

LeastIndent(template, Q) ==
    IF Q = {} THEN 0
    ELSE LET n(kj) == LeadingSpaceOrTab(Split(template[kj[1]])[kj[2]])
         IN  n(CHOOSE kj \in Q : \A kq \in Q : n(kj) <= n(kq))

\* minIndent as section 4.1 of the spec words it
SpecMinIndent(template) == LeastIndent(template, SpecQualifying(template))

\* the length of the indentation every non-blank line after the first shares
CommonIndent(template) == LeastIndent(template, StartQualifying(template))

\* a segment with p leading characters removed from every line it starts
DedentBy(seg, p) ==
    LET lines == Split(seg)
    IN  Join([j \in 1..Len(lines) |->
                IF j = 1 THEN lines[1] ELSE SliceFrom(lines[j], Min(p, Len(lines[j])))])

\* the leading whitespace of the last line of text
LastLineIndent(text) ==
    LET lines == Split(text) IN getLineIndent(lines[Len(lines)])

IsMultiline(value) == Includes(value.content, NL)

RECURSIVE ReindentedFrom(_, _, _, _)
\* the output from slot i on, each multiline value re-indented to the line it lands on
ReindentedFrom(template, values, i, sofar) ==
    IF i > Len(values) THEN sofar
    ELSE LET v     == values[i]
             chunk == IF v.unsafe \/ ~IsMultiline(v) THEN v.content
                      ELSE reindent(v.content, LastLineIndent(sofar))
         IN  ReindentedFrom(template, values, i + 1,
                 sofar \o chunk \o processTemplateSection(template[i + 1], getMinIndent(template)))

---------------------------------------------------------------------------
(* Claims about the synchronous render and the indentation engine *)

C7_DedentLaw ==
    (output # <<>> /\ indent /\ Len(vals) >= 1 /\ \A i \in 1..Len(vals) : ~IsMultiline(vals[i]))
    => /\ getMinIndent(segs) = CommonIndent(segs)
       /\ output[1] = processSimpleTemplate(
                         [k \in 1..Len(segs) |-> DedentBy(segs[k], CommonIndent(segs))], vals)

\* no visible text follows a slot on the slot's own line
NoTextAfterSlots(template) ==
    \A k \in 2..Len(template) : ~IsNonBlank(Split(template[k])[1])

\* C8: minIndent is the least leading run of spaces/tabs over the non-blank lines of
\* all segments but the first line of the first segment, 0 when there is none; a
\* segment without such a line does not change it.  Stated for the templates in which
\* no text follows a slot on its line, where the lines that count are beyond dispute
C8_MinIndentAsSpecified ==
    (applied.op = "getMinIndent" /\ NoTextAfterSlots(segs))
    => applied.res = SpecMinIndent(segs)

\* C9: dedenting a segment keeps its first line and the number of lines; each later
\* line loses exactly minIndent leading characters when it starts with that many
\* spaces/tabs, otherwise all of its leading whitespace, and nothing else
C9_DedentSegment ==
    applied.op = "processTemplateSection" =>
        LET m    == applied.minIndent
            inL  == Split(applied.part)
            outL == Split(applied.res)
        IN  /\ Len(outL) = Len(inL)
            /\ outL[1] = inL[1]
            /\ \A i \in 2..Len(inL) :
                 LET removed == Len(inL[i]) - Len(outL[i])
                 IN  /\ removed >= 0
                     /\ inL[i] = SubSeq(inL[i], 1, removed) \o outL[i]
                     /\ \A j \in 1..removed : IsSpaceOrTab(inL[i][j])
                     /\ IF LeadingSpaceOrTab(inL[i]) >= m
                        THEN removed = m
                        ELSE removed = LeadingSpaceOrTab(inL[i])

\* C9 witness: a segment dedented by m >= 1 with a later line indented by at least m
\* and another later line indented by less
C9_Witness ==
    /\ applied.op = "processTemplateSection"
    /\ applied.minIndent >= 1
    /\ LET inL == Split(applied.part)
       IN  /\ \E i \in 2..Len(inL) : LeadingSpaceOrTab(inL[i]) >= applied.minIndent
           /\ \E i \in 2..Len(inL) :
                /\ LeadingSpaceOrTab(inL[i]) >= 1
                /\ LeadingSpaceOrTab(inL[i]) < applied.minIndent

\* C10: in every render of a dedent template a multiline value that is not Unsafe keeps
\* its first line and has every later line prefixed with the leading whitespace of the
\* output line the value is inserted on
C10_ReindentLaw ==
    (output # <<>> /\ indent /\ Len(vals) >= 1)
    => output[1] = ReindentedFrom(segs, vals, 1,
                                  processTemplateSection(segs[1], getMinIndent(segs)))

---------------------------------------------------------------------------
(* The streaming render: compileStream, withBuffers, indexedBuffers, IndexedBuffer *)

\* slots are numbered 1..N here (0..N-1 in the code); slot i lies between
\* segs[i] and segs[i + 1]
Slots == 1..Len(vals)

\* a chunk with its place in declaration order: 0 is the first segment,
\* 2i - 1 the value of slot i, 2i the segment after slot i
Chunk(pos, text) == [pos |-> pos, text |-> text]

\* segments of a streamed template
StreamSegments == {<<>>} \cup {<<X, NL>> \o Spaces(k) \o <<X>> : k \in 1..MaxIndent}

\* slot values of a streamed template: a static primitive, or the text a dynamic
\* slot's encode yields
StreamValues ==
    {StringValue(<<X>>), StringValue(<<X, NL, X>>),
     [kind |-> "static", unsafe |-> FALSE, content |-> <<X, NL, X>>]}

Init ==
    /\ \E n \in 0..MaxSlots :
         /\ segs \in [1..(n + 1) -> StreamSegments]
         /\ vals \in [1..n -> StreamValues]
    /\ indent \in BOOLEAN
    /\ minIndentOf = getMinIndent(segs)
    /\ output = <<>>
    /\ applied = NoCall
    /\ StreamIdle
    /\ NoEntryPoints

\* processTemplatePart(templateStrings[0], minIndent, indent, true, null)
firstPart == processTemplatePart(segs[1], minIndentOf, indent, TRUE, <<>>)

\* every gate open from the start
InitReadyAll(i) == TRUE

\* indexedBuffers: state.ready of slot i at construction
InitReady(i) == i = 1

\* an onSuccess that pushes every value to the buffer, whatever the gate
onSuccessAlwaysBuffered(buf, isReady, value) == [buffer |-> Append(buf, value), effect |-> <<>>]

\* an onSuccess that hands a value to emit.single twice behind an open gate
onSuccessTwice(buf, isReady, value) ==
    IF isReady
    THEN [buffer |-> <<>>, effect |-> buf \o <<value, value>>]
    ELSE [buffer |-> Append(buf, value), effect |-> <<>>]

\* an onSuccess that hands every value to emit.single, whatever the gate
onSuccessUngated(buf, isReady, value) == [buffer |-> buf, effect |-> <<value>>]

\* IndexedBuffer.onSuccess(value): the buffer it leaves and the chunks its effect emits
onSuccess(buf, isReady, value) ==
    IF isReady
    THEN IF buf = <<>>
         THEN [buffer |-> buf, effect |-> <<value>>]
         ELSE [buffer |-> <<>>, effect |-> Append(buf, value)]
    ELSE [buffer |-> Append(buf, value), effect |-> <<>>]

\* an onDone that calls emit.end() for every slot
onDoneAlwaysEnds(i) ==
    /\ ended' = TRUE
    /\ IF i = Len(vals)
       THEN UNCHANGED <<ready, deferred>>
       ELSE /\ ready' = [ready EXCEPT ![i + 1] = TRUE]
            /\ deferred' = [deferred EXCEPT ![i + 1] = TRUE]

\* onDone of slot i: emit.end() for the last slot, else open the next gate
onDone(i) ==
    IF i = Len(vals)
    THEN /\ ended' = TRUE
         /\ UNCHANGED <<ready, deferred>>
    ELSE /\ ready' = [ready EXCEPT ![i + 1] = TRUE]
         /\ deferred' = [deferred EXCEPT ![i + 1] = TRUE]
         /\ UNCHANGED ended

\* the right side of a zipRight starts at once, its left side still emitting
effectDoneAtOnce(pending) == TRUE

\* Effect.zipRight(effect, next): next starts when effect has emitted all its chunks
effectDone(pending) == pending = <<>>

\* withBuffers(values.length, emit, fiberId); emit.single(firstPart)
StreamStart ==
    /\ pc = "idle"
    /\ pc' = "first"
    /\ spc' = [i \in Slots |-> "new"]
    /\ ready' = [i \in Slots |-> InitReady(i)]
    /\ deferred' = [i \in Slots |-> i = 1]
    /\ buffer' = [i \in Slots |-> <<>>]
    /\ queue' = [i \in Slots |-> <<>>]
    /\ emitted' = <<Chunk(0, firstPart)>>
    /\ UNCHANGED <<textVars, syncVars, lastContent, ended, completed>>

\* let lastContent = firstPart; Effect.forEach(parts, ..., { concurrency: 'unbounded' })
ForkSlots ==
    /\ pc = "first"
    /\ pc' = "running"
    /\ lastContent' = firstPart
    /\ UNCHANGED <<textVars, syncVars, spc, ready, deferred, buffer, queue, emitted, ended,
                   completed>>

\* slot i has its value: processValuePart, processTemplatePart, lastContent = nextTemplate,
\* buffer.onSuccess(index, processedValue), buffer.onSuccess(index, nextTemplate); the
\* effect then runs up to its first suspension
Resolve(i) ==
    LET processedValue == processValuePart(vals[i], minIndentOf, indent, lastContent)
        nextTemplate   == processTemplatePart(segs[i + 1], minIndentOf, indent, FALSE,
                                              <<processedValue>>)
        r1  == onSuccess(buffer[i], ready[i], Chunk(2 * i - 1, processedValue))
        r2  == onSuccess(r1.buffer, ready[i], Chunk(2 * i, nextTemplate))
        eff == r1.effect \o r2.effect
    IN  /\ lastContent' = nextTemplate
        /\ completed' = Append(completed, i)
        /\ buffer' = [buffer EXCEPT ![i] = r2.buffer]
        /\ IF eff # <<>>
           THEN /\ emitted' = Append(emitted, Head(eff))
                /\ queue' = [queue EXCEPT ![i] = Tail(eff)]
                /\ spc' = [spc EXCEPT ![i] = "emit"]
           ELSE /\ spc' = [spc EXCEPT ![i] = "await"]
                /\ UNCHANGED <<emitted, queue>>
        /\ UNCHANGED <<textVars, syncVars, pc, ready, deferred, ended>>

\* a forEach that runs one slot after the other: slot i starts when the slots before it
\* are done
mayStartSequential(i) == \A j \in 1..(i - 1) : spc[j] = "done"

\* Effect.forEach(..., { concurrency: 'unbounded' }) forks one fiber per slot, in index
\* order, without waiting for any of them
mayStart(i) == \A j \in 1..(i - 1) : spc[j] # "new"

\* the fiber of slot i starts (fibers are forked in index order): a static slot has its
\* value at once, a dynamic slot calls its encode
StartSlot(i) ==
    /\ pc = "running"
    /\ spc[i] = "new"
    /\ mayStart(i)
    /\ \/ /\ vals[i].kind = "static"
          /\ Resolve(i)
       \/ /\ vals[i].kind = "dynamic"
          /\ spc' = [spc EXCEPT ![i] = "eval"]
          /\ UNCHANGED <<textVars, syncVars, pc, ready, deferred, buffer, queue, lastContent,
                         emitted, ended, completed>>

\* the encode of dynamic slot i succeeds
CompleteSlot(i) ==
    /\ pc = "running"
    /\ spc[i] = "eval"
    /\ Resolve(i)

\* the promise of the last emit.single resolved and the effect has another chunk
EmitNext(i) ==
    /\ pc = "running"
    /\ spc[i] \in {"emit", "flush"}
    /\ queue[i] # <<>>
    /\ emitted' = Append(emitted, Head(queue[i]))
    /\ queue' = [queue EXCEPT ![i] = Tail(queue[i])]
    /\ UNCHANGED <<textVars, syncVars, pc, spc, ready, deferred, buffer, lastContent, ended,
                   completed>>

\* IndexedBuffer.onEnd: Deferred.await(state.deferred), then flush the buffer or onDone
AwaitDeferred(i) ==
    /\ pc = "running"
    /\ \/ spc[i] = "await"
       \/ spc[i] = "emit" /\ effectDone(queue[i])
    /\ deferred[i]
    /\ IF buffer[i] = <<>>
       THEN /\ onDone(i)
            /\ spc' = [spc EXCEPT ![i] = "done"]
            /\ UNCHANGED <<buffer, queue, emitted>>
       ELSE /\ emitted' = Append(emitted, Head(buffer[i]))
            /\ queue' = [queue EXCEPT ![i] = Tail(buffer[i])]
            /\ buffer' = [buffer EXCEPT ![i] = <<>>]
            /\ spc' = [spc EXCEPT ![i] = "flush"]
            /\ UNCHANGED <<ready, deferred, ended>>
    /\ UNCHANGED <<textVars, syncVars, pc, lastContent, completed>>

\* Effect.zipRight(effect, onDone): the flush is over
FlushDone(i) ==
    /\ pc = "running"
    /\ spc[i] = "flush"
    /\ effectDone(queue[i])
    /\ onDone(i)
    /\ spc' = [spc EXCEPT ![i] = "done"]
    /\ UNCHANGED <<textVars, syncVars, pc, buffer, queue, lastContent, emitted, completed>>

Next ==
    \/ StreamStart
    \/ ForkSlots
    \/ \E i \in Slots : StartSlot(i)
    \/ \E i \in Slots : CompleteSlot(i)
    \/ \E i \in Slots : EmitNext(i)
    \/ \E i \in Slots : AwaitDeferred(i)
    \/ \E i \in Slots : FlushDone(i)

Spec == Init /\ [][Next]_vars

\* every started fiber and every pending promise is eventually run, and every slot
\* evaluation eventually succeeds
FairSpec == Spec /\ WF_vars(Next)

\* what the closure returned by compileStream creates when it is invoked: the buffers and
\* gates, the reindent context, and the emit of its own stream
ThisInvocation ==
    [pc |-> pc, spc |-> spc, ready |-> ready, deferred |-> deferred, buffer |-> buffer,
     queue |-> queue, lastContent |-> lastContent, emitted |-> emitted, ended |-> ended,
     completed |-> completed]

\* a variable declared outside the closure: both invocations read and write the one value
sharedByInvocations(mine, theirs) == mine

\* a variable declared inside the closure (`let lastContent` in the Effect.gen of the
\* invocation): the fibers of the other invocation see their own
perInvocation(mine, theirs) == theirs

\* the scheduler passes from the fibers of one invocation to the fibers of the other
SwitchInvocation ==
    /\ other' = ThisInvocation
    /\ pc' = other.pc
    /\ spc' = other.spc
    /\ ready' = other.ready
    /\ deferred' = other.deferred
    /\ buffer' = other.buffer
    /\ queue' = other.queue
    /\ lastContent' = perInvocation(lastContent, other.lastContent)
    /\ emitted' = other.emitted
    /\ ended' = other.ended
    /\ completed' = other.completed
    /\ UNCHANGED <<segs, vals, indent, minIndentOf, entryVars, syncVars>>

\* the compiled templates of two slots that are streamed twice
ConcurrentSegments == {<<>>, <<X, NL, SP, X>>}

InitConcurrent ==
    /\ segs \in {<<a, b, c>> : a \in ConcurrentSegments, b \in ConcurrentSegments,
                               c \in ConcurrentSegments}
    /\ vals \in {<<StringValue(<<X, NL, X>>), v>> :
                     v \in {StringValue(<<X, NL, X>>),
                            [kind |-> "static", unsafe |-> FALSE, content |-> <<X>>]}}
    /\ indent = TRUE
    /\ minIndentOf = getMinIndent(segs)
    /\ output = <<>>
    /\ applied = NoCall
    /\ StreamIdle
    /\ NoEntryPoints

NextConcurrent ==
    \/ Next
    \/ SwitchInvocation

SpecConcurrent == InitConcurrent /\ [][NextConcurrent]_vars

\* an abort that leaves the slot fibers as they are
notInterrupted(status) == status

\* the fiber of a slot after the interruption of the forEach that forked it
interrupted(status) == IF status = "done" THEN "done" ELSE "interrupted"

\* the consumer aborts the stream before its end: the fiber that runs the register effect
\* of Stream.asyncEffect is interrupted, and with it the fibers forked by the forEach;
\* the effects they had not run yet are dropped; the buffers are plain arrays that no
\* code empties
Abort ==
    /\ pc \in {"first", "running"}
    /\ ~ended
    /\ pc' = "aborted"
    /\ spc' = [i \in Slots |-> interrupted(spc[i])]
    /\ queue' = [i \in Slots |-> <<>>]
    /\ UNCHANGED <<textVars, syncVars, ready, deferred, buffer, lastContent, emitted, ended,
                   completed>>

NextAbort ==
    \/ Next
    \/ Abort

SpecAbort == Init /\ [][NextAbort]_vars

\* a failure after which the fiber of the slot calls its encode again
onFailureRetried(i) ==
    /\ pc' = pc
    /\ spc' = [spc EXCEPT ![i] = "new"]
    /\ queue' = queue
    /\ emitted' = emitted

\* a failure handled by emitting the segment that follows the slot
onFailureEmitsSegment(i) ==
    /\ pc' = "failed"
    /\ spc' = [j \in Slots |-> IF j = i THEN "failed" ELSE interrupted(spc[j])]
    /\ queue' = [j \in Slots |-> <<>>]
    /\ emitted' = Append(emitted, Chunk(2 * i, segs[i + 1]))

\* the encode of slot i fails: nothing in the pipe of the slot handles the failure, the
\* forEach fails with it and interrupts the fibers of the other slots, and the register
\* effect of Stream.asyncEffect fails
onFailure(i) ==
    /\ pc' = "failed"
    /\ spc' = [j \in Slots |-> IF j = i THEN "failed" ELSE interrupted(spc[j])]
    /\ queue' = [j \in Slots |-> <<>>]
    /\ emitted' = emitted

\* the encode of dynamic slot i fails
FailSlot(i) ==
    /\ pc = "running"
    /\ spc[i] = "eval"
    /\ onFailure(i)
    /\ UNCHANGED <<textVars, syncVars, ready, deferred, buffer, lastContent, ended, completed>>

NextFailure ==
    \/ Next
    \/ \E i \in Slots : FailSlot(i)

SpecFailure == Init /\ [][NextFailure]_vars

\* the leading characters of a line that are spaces or tabs, counted one by one
IndentWidth(line) ==
    CHOOSE n \in 0..Len(line) :
        /\ \A i \in 1..n : line[i] \in {SP, TAB}
        /\ n = Len(line) \/ line[n + 1] \notin {SP, TAB}

\* a text without its leading whitespace
WithoutLeadingWhitespace(s) ==
    CHOOSE t \in {SubSeq(s, i, Len(s)) : i \in 1..(Len(s) + 1)} :
        /\ t = <<>> \/ t[1] \notin {SP, TAB, NL}
        /\ \A i \in 1..(Len(s) - Len(t)) : s[i] \in {SP, TAB, NL}

\* C33: the standalone dedent(input): of an input of two or more lines the first line
\* loses its leading whitespace and every later line loses exactly m leading characters,
\* m the smallest leading space/tab run among the lines after the first, so that the
\* later lines keep their indentation relative to each other; a single-line input is
\* returned without its leading whitespace
C33_StandaloneDedent ==
    applied.op = "dedent" =>
        LET lines == Split(applied.input)
            res   == Split(applied.res)
        IN  IF Len(lines) < 2
            THEN applied.res = WithoutLeadingWhitespace(applied.input)
            ELSE /\ Len(res) = Len(lines)
                 /\ res[1] = WithoutLeadingWhitespace(lines[1])
                 /\ \E m \in 0..Len(applied.input) :
                        /\ \A j \in 2..Len(lines) : IndentWidth(lines[j]) >= m
                        /\ \E j \in 2..Len(lines) : IndentWidth(lines[j]) = m
                        /\ \A j \in 2..Len(lines) :
                               /\ Len(lines[j]) = Len(res[j]) + m
                               /\ res[j] = SubSeq(lines[j], m + 1, Len(lines[j]))
                 /\ \A j, k \in 2..Len(lines) :
                        IndentWidth(res[j]) - IndentWidth(res[k])
                            = IndentWidth(lines[j]) - IndentWidth(lines[k])

\* C33 witness: an input of three lines whose later lines are indented by two and by one
\* has lost one character of each
C33_Witness ==
    /\ applied.op = "dedent"
    /\ Len(Split(applied.input)) = 3
    /\ IndentWidth(Split(applied.input)[2]) = 2
    /\ IndentWidth(Split(applied.input)[3]) = 1
    /\ IndentWidth(Split(applied.res)[2]) = 1
    /\ IndentWidth(Split(applied.res)[3]) = 0

---------------------------------------------------------------------------
(* Claims about the streaming render *)

ChunkTexts(chunks) == [k \in 1..Len(chunks) |-> chunks[k].text]

\* every fiber has run to its end
StreamFinished == pc = "running" /\ \A i \in Slots : spc[i] = "done"

RECURSIVE InDeclarationOrder(_, _, _)
\* the chunk texts when slot i and the slots after it complete one after the other in
\* declaration order, last being the segment before slot i as emitted
InDeclarationOrder(i, last, sofar) ==
    IF i > Len(vals) THEN sofar
    ELSE LET processedValue == processValuePart(vals[i], minIndentOf, indent, last)
             nextTemplate   == processTemplatePart(segs[i + 1], minIndentOf, indent, FALSE,
                                                   <<processedValue>>)
         IN  InDeclarationOrder(i + 1, nextTemplate, sofar \o <<processedValue, nextTemplate>>)

\* C1: under every interleaving of slot completions the chunks reach the consumer in
\* declaration order: segment 0, then for each slot its value followed by the next
\* segment; no chunk of a slot is emitted before all chunks of every earlier slot
C1_DeclarationOrder ==
    \A k \in 1..Len(emitted) : emitted[k].pos = k - 1

\* C1 witness: a finished stream of several slots whose first slot completed last
C1_Witness ==
    /\ ended
    /\ Len(vals) >= 2
    /\ Len(completed) = Len(vals)
    /\ completed[Len(completed)] = 1
    /\ Len(emitted) = 2 * Len(vals) + 1

\* C2: the emitted chunk sequence, compared as text, is the same for every order in
\* which the slot evaluations complete: it is the sequence of the declaration-order run
C2_CompletionOrderInvariant ==
    ended => ChunkTexts(emitted) = InDeclarationOrder(1, firstPart, <<firstPart>>)

\* C3: the output of the synchronous render equals the concatenation, in order, of all
\* chunks of the streaming render of the same template and values
C3_SyncEqualsStream ==
    StreamFinished => Concat(ChunkTexts(emitted)) = processTemplate(segs, vals, indent)

\* C4: the stream is finite: whatever the number of slots, when every slot evaluation
\* succeeds, end-of-sequence is eventually signalled
C4_EndOfSequence == <>ended

\* C5: the first chunk emitted is segment 0, dedented by the common indentation when
\* dedent is requested, and it is emitted before any slot is evaluated
C5_FirstChunk ==
    /\ emitted # <<>> =>
         emitted[1] = Chunk(0, IF indent THEN DedentBy(segs[1], CommonIndent(segs))
                                         ELSE segs[1])
    /\ pc = "first" => (emitted # <<>> /\ completed = <<>>)
    /\ completed # <<>> => emitted # <<>>

\* both chunks of slot j, its value and the segment after it, have reached the consumer
SlotEmitted(j) ==
    /\ \E k \in 1..Len(emitted) : emitted[k].pos = 2 * j - 1
    /\ \E k \in 1..Len(emitted) : emitted[k].pos = 2 * j

\* gate 1 is open, and an open gate has every earlier gate open and every earlier
\* slot's chunks emitted
GatesInOrder ==
    pc # "idle" =>
        /\ \A i \in Slots : ready[i] = deferred[i]
        /\ \A i \in Slots : i = 1 => ready[i]
        /\ \A i \in Slots : ready[i] => \A j \in 1..(i - 1) : ready[j] /\ SlotEmitted(j)

\* a step closes no gate, and the onDone of slot i runs once, on a closed next gate
GatesOpenOnce ==
    pc # "idle" =>
        \A i \in Slots :
            /\ ready[i] => ready'[i]
            /\ deferred[i] => deferred'[i]
            /\ spc[i] = "done" => spc'[i] = "done"
            /\ (spc[i] # "done" /\ spc'[i] = "done" /\ i < Len(vals)) =>
                   (~ready[i + 1] /\ ~deferred[i + 1] /\ ready'[i + 1] /\ deferred'[i + 1])

\* C24: gate protocol: the first gate is open from the start; the gate after slot i
\* opens only once both chunks of slot i have been emitted; an open gate never closes
\* and is signalled once; so behind an open gate every earlier gate is open and every
\* earlier slot is emitted
C24_GateProtocol == [](GatesInOrder) /\ [][GatesOpenOnce]_vars

\* C24 witness: the second gate has just opened while the second slot, which resolved
\* first, still holds its chunks in its buffer
C24_Witness ==
    /\ pc = "running"
    /\ Len(vals) = 2
    /\ ready[2]
    /\ buffer[2] # <<>>
    /\ completed = <<2, 1>>

\* what follows slot i has been signalled: the next gate, or the end after the last slot
NextSignalled(i) == IF i = Len(vals) THEN ended ELSE ready[i + 1]

\* the places, in declaration order, of a sequence of chunks
Places(chunks) == [k \in 1..Len(chunks) |-> chunks[k].pos]

\* behind a closed gate the value and the following segment sit in the buffer, in that
\* order, and nothing of the slot is emitted; what follows the slot is signalled only
\* when the slot's buffer and pending emissions are empty and both chunks are out
BufferedUntilGate ==
    pc # "idle" =>
        \A i \in Slots :
            /\ ~ready[i] =>
                   /\ \A k \in 1..Len(emitted) : emitted[k].pos \notin {2 * i - 1, 2 * i}
                   /\ queue[i] = <<>>
                   /\ buffer[i] = <<>> \/ Places(buffer[i]) = <<2 * i - 1, 2 * i>>
                   /\ buffer[i] # <<>> <=> \E k \in 1..Len(completed) : completed[k] = i
            /\ NextSignalled(i) => buffer[i] = <<>> /\ queue[i] = <<>> /\ SlotEmitted(i)

\* a buffer is emptied only behind its open gate, and its chunks reach the consumer in
\* the order they were buffered
FlushInOrder ==
    pc # "idle" =>
        \A i \in Slots :
            /\ (buffer[i] # <<>> /\ buffer'[i] # buffer[i]) =>
                   /\ ready[i]
                   /\ buffer'[i] = <<>>
                   /\ emitted' \o queue'[i] = emitted \o buffer[i]
            /\ (queue[i] # <<>> /\ queue'[i] # queue[i]) =>
                   /\ emitted' = Append(emitted, Head(queue[i]))
                   /\ queue'[i] = Tail(queue[i])
                   /\ ~NextSignalled(i)'

C26_ContextIsLastEmitted ==
    \A k \in 2..Len(emitted) :
        emitted[k].pos % 2 = 1 =>
            emitted[k].text = processValuePart(vals[(emitted[k].pos + 1) \div 2],
                                               minIndentOf, indent, emitted[k - 1].text)

\* C27: every slot evaluation is started without waiting for another slot and may
\* complete whatever the other slots do: the next fiber to fork can always start, and a
\* pending evaluation can always complete (its chunks are then emitted or buffered)
C27_EvaluationNeverBlocked ==
    pc = "running" =>
        \A j \in Slots :
            /\ (spc[j] = "new" /\ \A k \in 1..(j - 1) : spc[k] # "new") => ENABLED StartSlot(j)
            /\ spc[j] = "eval" => ENABLED CompleteSlot(j)

\* C27 witness: the second slot's evaluation has completed and its two chunks are
\* buffered while the first slot's evaluation is still pending
C27_Witness ==
    /\ pc = "running"
    /\ Len(vals) = 2
    /\ spc[1] = "eval"
    /\ completed = <<2>>
    /\ Len(buffer[2]) = 2
    /\ Len(emitted) = 1

\* after an abort every slot fiber is done or interrupted, nothing waits to be emitted
\* and no step of the render can be taken
AbortStopsRender ==
    /\ \A i \in Slots : spc[i] \in {"done", "interrupted"} /\ queue[i] = <<>>
    /\ ~ENABLED Next

\* C28 (as stated): after an abort the pending slot evaluations are cancelled, no chunk
\* is emitted any more and no buffer holds a chunk
C28_AbortEmptiesBuffers ==
    pc = "aborted" => AbortStopsRender /\ \A i \in Slots : buffer[i] = <<>>

\* C28 (amended): after an abort the pending slot evaluations are cancelled and no chunk
\* is emitted any more; a chunk buffered at the abort stays in its buffer and is never
\* emitted
C28_AbortStopsRender ==
    pc = "aborted" =>
        /\ AbortStopsRender
        /\ \A i \in Slots : \A k \in 1..Len(buffer[i]) :
               \A e \in 1..Len(emitted) : emitted[e].pos # buffer[i][k].pos

\* C28 witness: the render was aborted while the first slot's evaluation was pending and
\* the second slot's chunks were buffered
C28_Witness ==
    /\ pc = "aborted"
    /\ Len(vals) = 2
    /\ spc[1] = "interrupted"
    /\ completed = <<2>>
    /\ Len(buffer[2]) = 2

RECURSIVE contextAfter(_, _), valueAt(_, _)
\* an invocation alone: the reindent context after the first k completions of `order`
contextAfter(order, k) ==
    IF k = 0
    THEN firstPart
    ELSE processTemplatePart(segs[order[k] + 1], minIndentOf, indent, FALSE,
                             <<valueAt(order, k)>>)

\* an invocation alone: the value chunk of the slot that completes k-th in `order`
valueAt(order, k) ==
    processValuePart(vals[order[k]], minIndentOf, indent, contextAfter(order, k - 1))

\* an invocation alone: the text of the chunk at place pos when its slots complete in
\* `order`
AloneChunk(order, place) ==
    IF place = 0
    THEN firstPart
    ELSE LET k == CHOOSE k \in 1..Len(order) : order[k] = (place + 1) \div 2
         IN  IF place % 2 = 1 THEN valueAt(order, k) ELSE contextAfter(order, k)

\* every chunk the invocation has emitted, is emitting or holds in a buffer is the chunk
\* the invocation alone produces for its own completion order, and the emitted chunks are
\* in declaration order
AsAlone(inv) ==
    /\ \A e \in 1..Len(inv.emitted) :
           /\ inv.emitted[e].pos = e - 1
           /\ inv.emitted[e].text = AloneChunk(inv.completed, inv.emitted[e].pos)
    /\ \A i \in DOMAIN inv.buffer :
           /\ \A k \in 1..Len(inv.buffer[i]) :
                  inv.buffer[i][k].text = AloneChunk(inv.completed, inv.buffer[i][k].pos)
           /\ \A k \in 1..Len(inv.queue[i]) :
                  inv.queue[i][k].text = AloneChunk(inv.completed, inv.queue[i][k].pos)
    /\ inv.pc = "running" => inv.lastContent = contextAfter(inv.completed, Len(inv.completed))

\* a step of one invocation changes nothing of the other invocation and nothing of the
\* compiled template; a switch hands each invocation back exactly what it left
StepsAreLocal ==
    /\ UNCHANGED <<segs, vals, indent, minIndentOf>>
    /\ \/ other' = other
       \/ other' = ThisInvocation /\ ThisInvocation' = other

BuffersBounded ==
    pc # "idle" =>
        \A i \in Slots :
            /\ Len(buffer[i]) <= 2
            /\ \A k \in 1..Len(buffer[i]) : buffer[i][k].pos = 2 * i - 2 + k
            /\ buffer[i] # <<>> =>
                   /\ \E k \in 1..Len(completed) : completed[k] = i
                   /\ spc[i] = "await"
            /\ ended => buffer[i] = <<>>

\* a chunk enters a buffer only while the gate of its slot is closed
BufferedBehindClosedGate ==
    pc # "idle" =>
        \A i \in Slots : Len(buffer'[i]) > Len(buffer[i]) => ~ready[i]

\* C34: the ordered buffer is bounded: a slot's buffer never holds more than the slot's
\* two chunks, only a slot whose evaluation finished while its gate was closed holds
\* any, and every buffer is empty when the end is signalled
C34_BufferBounded == [](BuffersBounded) /\ [][BufferedBehindClosedGate]_vars

\* C34 witness: the second slot holds its two chunks while the first slot is emitting
C34_Witness ==
    /\ pc = "running"
    /\ Len(vals) = 2
    /\ Len(buffer[2]) = 2
    /\ spc[1] = "emit"
    /\ ~ready[2]

\* C35: every chunk is emitted exactly once: no place of the declaration order occurs
\* twice among the emitted chunks, never more than 2N+1 chunks are emitted, and when the
\* render of a template whose evaluations all succeed can take no further step the
\* emitted chunks are the 2N+1 chunks, segment 0 and two per slot
C35_ExactlyOnce ==
    /\ \A k, l \in 1..Len(emitted) : emitted[k].pos = emitted[l].pos => k = l
    /\ Len(emitted) <= 2 * Len(vals) + 1
    /\ \A k \in 1..Len(emitted) : emitted[k].pos \in 0..(2 * Len(vals))
    /\ (pc # "idle" /\ ~ENABLED Next) => Len(emitted) = 2 * Len(vals) + 1

\* C35 witness: a render of two slots, the second buffered first, that has emitted its
\* five chunks and can take no further step
C35_Witness ==
    /\ Len(vals) = 2
    /\ completed = <<2, 1>>
    /\ Len(emitted) = 5
    /\ ~ENABLED Next

\* the end is signalled with every chunk of every slot emitted
EndAfterAllChunks ==
    ended =>
        /\ Len(vals) > 0
        /\ \A i \in Slots : SlotEmitted(i) /\ spc[i] = "done"
        /\ Len(emitted) = 2 * Len(vals) + 1

\* the end is signalled by the onDone of the last slot, which runs once, and nothing
\* is emitted after it
EndOnce ==
    /\ ended => (ended' /\ emitted' = emitted)
    /\ (~ended /\ ended') =>
           (spc[Len(vals)] # "done" /\ spc'[Len(vals)] = "done")
    /\ \A i \in DOMAIN spc : spc[i] = "done" => spc'[i] = "done"

\* C36: the end of the stream is signalled at most once, by the last slot's onDone and
\* only when every chunk of every slot has been emitted, and no chunk is emitted after
\* it
C36_EndOnceAfterAll == [](EndAfterAllChunks) /\ [][EndOnce]_vars

\* C36 witness: the end has been signalled for a template of two slots that completed
\* in declaration order
C36_Witness ==
    /\ ended
    /\ Len(vals) = 2
    /\ completed = <<1, 2>>
    /\ Len(emitted) = 5

\* the slots whose encode was called and has returned, with a value or a failure
Evaluated == {i \in Slots : spc[i] \notin {"new", "eval", "interrupted"}}

\* a slot has its value at most once, a failure ends the render with one failed slot that
\* has no value, and a render that ran to its end evaluated every slot
EvaluatedOnce ==
    pc # "idle" =>
        /\ \A k, l \in 1..Len(completed) : completed[k] = completed[l] => k = l
        /\ \A i \in Slots : spc[i] = "failed" => \A k \in 1..Len(completed) : completed[k] # i
        /\ pc = "failed" <=> \E i \in Slots : spc[i] = "failed"
        /\ \A i, j \in Slots : spc[i] = "failed" /\ spc[j] = "failed" => i = j
        /\ StreamFinished => {completed[k] : k \in 1..Len(completed)} = Slots

\* the encode of a slot is called from the fresh fiber only, a fiber never becomes fresh
\* again, and a failed slot stays failed
NeverRestarted ==
    pc # "idle" =>
        \A i \in Slots :
            /\ (spc[i] # "eval" /\ spc'[i] = "eval") => spc[i] = "new"
            /\ spc[i] # "new" => spc'[i] # "new"
            /\ spc[i] = "failed" => spc'[i] = "failed"
            /\ i \in Evaluated => Len(completed') = Len(completed)
                                  \/ completed'[Len(completed')] # i

FailedWithPrefix ==
    pc = "failed" =>
        /\ ~ended
        /\ \A k \in 1..Len(emitted) : emitted[k].pos = k - 1
        /\ \A i \in Slots : spc[i] = "failed" =>
               \A k \in 1..Len(emitted) : emitted[k].pos < 2 * i - 1

\* nothing is emitted and no end is signalled after the failure
FailureIsFinal ==
    pc = "failed" => /\ pc' = "failed"
                     /\ emitted' = emitted
                     /\ ended' = ended

\* C37: when the evaluation of a slot fails during a streaming render the stream ends
\* with the failure and without the end-of-sequence signal, the chunks handed over so
\* far are a prefix of the declaration order, and no chunk of the failing slot or of a
\* later slot is ever handed over
C37_FailureKeepsPrefix == [](FailedWithPrefix) /\ [][FailureIsFinal]_vars

\* C37 witness: the first of two slots fails while the second, already evaluated, has
\* its two chunks buffered behind its closed gate
C37_Witness ==
    /\ pc = "failed"
    /\ Len(vals) = 2
    /\ spc[1] = "failed"
    /\ Len(buffer[2]) = 2
    /\ Len(emitted) = 1

---------------------------------------------------------------------------
(* The entry points of a template: template(), dedent(), liftImpl, compile,
   compileStream, compileParameters, compileParametersSchema: template.ts *)

MaxCalls == 3

Templates == {"A", "B", "C", "D"}

\* the templates the caller invokes where A is the only nested template
EntryPointTemplates == {"A", "B"}

\* the values a template literal is constructed with
Primitive(text) ==
    [kind |-> "Primitive", name |-> "", codec |-> "", text |-> text]
EffectValue(outcome) ==
    [kind |-> "Effect", name |-> "", codec |-> outcome, text |-> <<X>>]
Parameter(name, schema) ==
    [kind |-> "Parameter", name |-> name, codec |-> schema, text |-> <<>>]
TemplateValue(name) ==
    [kind |-> "Template", name |-> name, codec |-> "", text |-> <<>>]
\* an object that is neither a primitive, an Effect, a Parameter nor a Template
InvalidValue ==
    [kind |-> "Invalid", name |-> "", codec |-> "", text |-> <<>>]

\* the other primitives: null, undefined, a number, a boolean, a bigint literal
NullValue ==
    [kind |-> "null", name |-> "", codec |-> "", text |-> <<>>]
UndefinedValue ==
    [kind |-> "undefined", name |-> "", codec |-> "", text |-> <<>>]
NumberValue(digits) ==
    [kind |-> "number", name |-> "", codec |-> "", text |-> digits]
BooleanValue(b) ==
    [kind |-> "boolean", name |-> "", codec |-> IF b THEN "true" ELSE "false", text |-> <<>>]
BigintValue(digits) ==
    [kind |-> "bigint", name |-> "", codec |-> "", text |-> digits \o <<"n">>]
\* new Unsafe({ content })
UnsafeSlot(content) ==
    [kind |-> "Unsafe", name |-> "", codec |-> "", text |-> content]

\* typeof value
typeOf(value) ==
    CASE value.kind = "Primitive" -> "string"
      [] value.kind \in {"number", "boolean", "bigint", "undefined"} -> value.kind
      [] value.kind = "Template" -> "function"
      [] OTHER -> "object"

\* value._tag, "" for undefined
tagOf(value) ==
    IF value.kind \in {"Parameter", "Template", "Unsafe"} THEN value.kind ELSE ""

\* Effect.isEffect(value)
isEffect(value) == value.kind = "Effect"

\* the typeof list without 'bigint'
PRIMITIVE_TYPEOF_VALUES_BEFORE_BIGINT == {"string", "number", "boolean", "undefined"}

PRIMITIVE_TYPEOF_VALUES == {"string", "number", "boolean", "bigint", "undefined"}

isPrimitive(value) == typeOf(value) \in PRIMITIVE_TYPEOF_VALUES \/ value.kind = "null"

\* String(value) of a primitive
String(value) ==
    CASE value.kind = "boolean" ->
            IF value.codec = "true" THEN <<"t", "r", "u", "e">> ELSE <<"f", "a", "l", "s", "e">>
      [] value.kind = "bigint" -> SubSeq(value.text, 1, Len(value.text) - 1)
      [] value.kind = "null" -> <<"n", "u", "l", "l">>
      [] value.kind = "undefined" -> <<"u", "n", "d", "e", "f", "i", "n", "e", "d">>
      [] OTHER -> value.text

\* what one round of the for loop of compileParameters stores for a slot: parts[i], the
\* staticParts entry, the name of the dynamicParts entry (<<>> for null) and whether
\* fields gets an entry
Part(part, static, name, field) ==
    [part |-> part, static |-> static, name |-> name, field |-> field]

classify(value) ==
    IF value.kind \in {"null", "undefined"} THEN Part("static", <<>>, <<>>, FALSE)
    ELSE IF isPrimitive(value) THEN Part("static", String(value), <<>>, FALSE)
    ELSE IF isEffect(value) THEN Part("dynamic", <<>>, <<>>, FALSE)
    ELSE IF tagOf(value) = "Parameter" THEN Part("dynamic", <<>>, <<value.name>>, TRUE)
    ELSE IF tagOf(value) = "Template" THEN Part("dynamic", <<>>, <<value.name>>, TRUE)
    ELSE Part("throw", <<>>, <<>>, FALSE)

TemplateImpl(template, values, shouldDedent) ==
    [template |-> template, values |-> values, indent |-> shouldDedent]

\* A = template('A')`x\n x${..}\n x`
StringsOfA == << <<X, NL, SP, X>>, <<NL, SP, X>> >>
\* B = template('B') or dedent('B') of `x\n  x\n   ${..}\n  x\n   ${..}\n  x`
StringsOfB == << <<X, NL, SP, SP, X, NL, SP, SP, SP>>,
                 <<NL, SP, SP, X, NL, SP, SP, SP>>,
                 <<NL, SP, SP, X>> >>

ValuesOfA == {<<Parameter("p", "UnsafeFromString")>>, <<Parameter("p", "String")>>}

ValuesOfB ==
    {<<v1, v2>> :
        v1 \in {TemplateValue("A"), Parameter("p", "UnsafeFromString"),
                Parameter("p", "ArbitraryJson")},
        v2 \in {Parameter("q", "ArbitraryJson"), Parameter("p", "NumberFromString"),
                EffectValue("succeed"), EffectValue("fail"), Primitive(<<X>>),
                InvalidValue}}
    \cup
    \* the same Parameter in both slots; a static slot first; no Parameter at all
    {<<Parameter("p", "UnsafeFromString"), Parameter("p", "UnsafeFromString")>>,
     <<Primitive(<<X>>), Parameter("q", "ArbitraryJson")>>,
     <<EffectValue("succeed"), Primitive(<<X>>)>>,
     <<EffectValue("succeed"), EffectValue("succeed")>>,
     <<EffectValue("succeed"), EffectValue("fail")>>}

\* C = template('C')`x\n x${'x'}\n x`, a template without parameters
ImplOfC == TemplateImpl(StringsOfA, <<Primitive(<<X>>)>>, FALSE)

\* D = template('D') or dedent('D') of B's text, with A nested in its first slot
ImplOfD(dedentD) == TemplateImpl(StringsOfB, <<TemplateValue("A"), Primitive(<<X>>)>>, dedentD)

Definitions ==
    {[t \in Templates |-> CASE t = "A" -> TemplateImpl(StringsOfA, a, FALSE)
                            [] t = "B" -> TemplateImpl(StringsOfB, b, dedentB)
                            [] t = "C" -> ImplOfC
                            [] t = "D" -> ImplOfD(FALSE)] :
        a \in ValuesOfA, b \in ValuesOfB, dedentB \in BOOLEAN}

\* the chain of nested templates: C is a slot of A, A is a slot of B and of D
ChainDefinitions ==
    {[t \in Templates |-> CASE t = "A" -> TemplateImpl(StringsOfA, <<TemplateValue("C")>>, FALSE)
                            [] t = "B" -> ImplOfD(dedentB)
                            [] t = "C" -> ImplOfC
                            [] t = "D" -> ImplOfD(dedentD)] :
        dedentB \in BOOLEAN, dedentD \in BOOLEAN}

\* what a caller stores under a parameter name
Absent        == [type |-> "undefined", text |-> <<>>]
StringInput   == [type |-> "string", text |-> <<X, NL, X>>]
NumberInput   == [type |-> "number", text |-> <<"1">>]
FunctionInput == [type |-> "function", text |-> <<>>]
EmptyObject   == [type |-> "object", text |-> <<"{", "}">>]

\* the sub-record of a nested template, given or left out
Given   == [present |-> TRUE]
LeftOut == [present |-> FALSE]

ParameterRecords ==
    {[present |-> TRUE, p |-> p, q |-> q,
      A |-> [present |-> TRUE, p |-> ap, C |-> Given], C |-> Given] :
        p \in {StringInput, FunctionInput, Absent},
        q \in {NumberInput, FunctionInput},
        ap \in {StringInput, Absent}}

\* parameters every codec of the templates above accepts, but for a conflicting p
ValidParameters ==
    [present |-> TRUE, p |-> StringInput, q |-> NumberInput,
     A |-> [present |-> TRUE, p |-> StringInput, C |-> Given], C |-> Given]

\* `{}`, the default of compile, compileStream and encode_
NoParameters == [present |-> TRUE, p |-> Absent, q |-> Absent,
                 A |-> [present |-> FALSE, p |-> Absent, C |-> LeftOut], C |-> LeftOut]

\* no argument at all: lifted() and lifted.stream()
Undefined == [NoParameters EXCEPT !.present = FALSE]

\* a render without the default: the encode is given what the caller passed
noDefault(params) == params

\* (params = {} as Template.Parameters<Values>) => ...
defaultParams(params) == IF params.present THEN params ELSE NoParameters

\* the parent's own record in place of the sub-record of a nested template
PropertyOfParent(input, name) ==
    IF name \in {"A", "C"} THEN input ELSE input[name]

\* input[name]
Property(input, name) ==
    CASE name = "A" ->
            IF input.A.present
            THEN [NoParameters EXCEPT !.p = input.A.p, !.C = input.A.C]
            ELSE [NoParameters EXCEPT !.present = FALSE]
      [] name = "C" ->
            IF input.C.present THEN NoParameters
            ELSE [NoParameters EXCEPT !.present = FALSE]
      [] OTHER -> input[name]

\* Schema.typeSchema(schema): what the Struct field of a Parameter accepts; a key the
\* caller left out is validated as undefined, which only Schema.Unknown accepts
typeSchema(codec, v) ==
    CASE codec = "String"           -> v.type = "string"
      [] codec = "UnsafeFromString" -> v.type = "string"
      [] codec = "NumberFromString" -> v.type = "number"
      [] codec = "ArbitraryJson"    -> TRUE

\* JSON.stringify(input, null, space): <<>> for undefined, else <<text>>
JSONstringify(v) ==
    CASE v.type \in {"number", "object"} -> <<v.text>>
      [] v.type = "string" ->
            << <<"\"">> \o Concat([i \in 1..Len(v.text) |->
                              IF v.text[i] = NL THEN <<"\\", "n">> ELSE <<v.text[i]>>])
                        \o <<"\"">> >>
      [] OTHER -> <<>>

\* the outcome of evaluating one slot
Succeeded(value) ==
    [ok |-> TRUE, value |-> value, kind |-> "ok", issues |-> {}]
Failed(kind, issues) ==
    [ok |-> FALSE, value |-> StringValue(<<>>), kind |-> kind, issues |-> issues]

Issue(tag, path) == [tag |-> tag, path |-> path]

\* Schema.encode(schema, { errors: 'all' }) of a Parameter's schema
schemaEncode(codec, v) ==
    IF ~typeSchema(codec, v)
    THEN Failed("ParseError", {Issue("Type", <<>>)})
    ELSE CASE codec = "String"           -> Succeeded(StringValue(v.text))
           [] codec = "UnsafeFromString" -> Succeeded(UnsafeValue(v.text))
           [] codec = "NumberFromString" -> Succeeded(StringValue(v.text))
           [] codec = "ArbitraryJson"    ->
                IF JSONstringify(v) = <<>>
                THEN Failed("ParseError", {Issue("Transformation", <<>>)})
                ELSE Succeeded(StringValue(JSONstringify(v)[1]))

\* the function encode_ returns the first time a schema is given: undefined becomes {};
\* the function it returns for a schema in encodeCache has no such default, which
\* makes a difference for no schema but ArbitraryJson, and each json() has its own
encode_(codec, v) ==
    schemaEncode(codec, IF v.type = "undefined" THEN EmptyObject ELSE v)

\* the identity compileParametersSchemaCache is keyed by: compile and compileStream pass
\* the TemplateImpl, a Template slot passes the lifted function
ImplKey(t)   == <<"TemplateImpl", t>>
LiftedKey(t) == <<"Template", t>>

Classified(threw, cache, classified) ==
    [threw |-> threw, cache |-> cache, classified |-> classified]

RECURSIVE compileParameters(_, _, _, _)
RECURSIVE classifyLoop(_, _, _, _, _)
\* the for loop of compileParameters from slot i on; `classified` counts the runs of
\* the loop per template
classifyLoop(d, values, i, cache, classified) ==
    IF i > Len(values) THEN Classified(FALSE, cache, classified)
    ELSE IF classify(values[i]).part = "throw" THEN Classified(TRUE, cache, classified)
    ELSE IF values[i].kind = "Template"
         THEN LET nested == compileParameters(d, LiftedKey(values[i].name), cache,
                                              classified)
              IN  IF nested.threw THEN nested
                  ELSE classifyLoop(d, values, i + 1, nested.cache, nested.classified)
         ELSE classifyLoop(d, values, i + 1, cache, classified)

compileParameters(d, key, cache, classified) ==
    IF key \in cache THEN Classified(FALSE, cache, classified)
    ELSE LET t == key[2]
             r == classifyLoop(d, d[t].values, 1, cache,
                               [classified EXCEPT ![t] = @ + 1])
         IN  IF r.threw THEN r
             ELSE Classified(FALSE, r.cache \cup {key}, r.classified)

isDynamic(value) == classify(value).part = "dynamic"

\* the slots that declare a field of the parameter record
isField(value) == classify(value).field

\* staticParts.get(i)
staticPart(value) == classify(value).static

\* fields[value.name] = ...: the slot whose schema the field map holds for each name
fields(values) ==
    [name \in {values[i].name : i \in {j \in 1..Len(values) : isField(values[j])}} |->
        CHOOSE i \in 1..Len(values) :
            /\ isField(values[i]) /\ values[i].name = name
            /\ \A j \in (i + 1)..Len(values) : ~(isField(values[j]) /\ values[j].name = name)]

RECURSIVE compiledFields(_, _)
\* the field map after the loop: Schema.typeSchema of a Parameter's schema, and for a
\* Template the schema compileParametersSchema builds from the fields of its own
\* compileParameters
compiledFields(d, values) ==
    [name \in DOMAIN fields(values) |->
        LET value == values[fields(values)[name]]
        IN  IF tagOf(value) = "Parameter"
            THEN <<"typeSchema", value.codec>>
            ELSE <<"Struct", compiledFields(d, d[value.name].values)>>]

\* { fields, staticParts, dynamicParts, parts } as compileParameters caches and returns
\* it; a dynamicParts entry is shown by its name, <<>> for null
CompiledParameters(d, values) ==
    [fields       |-> compiledFields(d, values),
     staticParts  |-> [i \in {j \in 1..Len(values) : classify(values[j]).part = "static"} |->
                          classify(values[i]).static],
     dynamicParts |-> [i \in {j \in 1..Len(values) : classify(values[j]).part = "dynamic"} |->
                          classify(values[i]).name],
     parts        |-> [i \in 1..Len(values) |-> classify(values[i]).part]]

RECURSIVE StructIssues(_, _, _, _)
\* the issues Schema.Struct(fields) reports for input with errors: 'all', each with the
\* path of its field
StructIssues(d, t, input, path) ==
    LET values == d[t].values
        f      == fields(values)
    IN  UNION {
          LET value == values[f[name]]
              v     == Property(input, name)
          IN  IF value.kind = "Template"
              THEN IF ~v.present THEN {Issue("Missing", path \o <<name>>)}
                   ELSE StructIssues(d, name, v, path \o <<name>>)
              ELSE IF typeSchema(value.codec, v) THEN {}
              ELSE IF v.type = "undefined" THEN {Issue("Missing", path \o <<name>>)}
              ELSE {Issue("Type", path \o <<name>>)}
          : name \in DOMAIN f}

\* the result of one invocation
Outcome(kind, text, issues, failed) ==
    [kind |-> kind, output |-> text, issues |-> issues, failed |-> failed]

\* indentCache.get(template), <<>> for undefined
indentCacheGet(cache, key) == cache[key]

indentCacheSetZero(cache, key, minIndent) == [cache EXCEPT ![key] = <<0>>]

indentCacheSet(cache, key, minIndent) == [cache EXCEPT ![key] = <<minIndent>>]

\* processTemplate with the indentCache it reads
processTemplateCached(cache, key, template, values, shouldDedent) ==
    IF Len(template) > 1 /\ Len(values) > 0 /\ shouldDedent
       /\ indentCacheGet(cache, key) # <<>>
    THEN processDedentTemplate(template, values, indentCacheGet(cache, key)[1])
    ELSE processTemplate(template, values, shouldDedent)

\* the indentCache processTemplate leaves
indentCacheAfter(cache, key, template, values, shouldDedent) ==
    IF Len(template) > 1 /\ Len(values) > 0 /\ shouldDedent
       /\ indentCacheGet(cache, key) = <<>>
    THEN indentCacheSet(cache, key, getMinIndent(template))
    ELSE cache

\* the indent flag the nested encoders of lifted template `name` were built with:
\* compileParameters(value, indent) returns its cached dynamicParts, built under the
\* indent of the first compile that reached the template; a template reached for the
\* first time is classified under the indent of the compile that is running
dynamicPartsIndent(name, shouldDedent) ==
    IF partsIndent[name] = <<>> THEN shouldDedent ELSE partsIndent[name][1]

\* the keys of dynamicParts, a Map filled in slot order
dynamicIndexes(values) ==
    SelectSeq([i \in 1..Len(values) |-> i], LAMBDA i : isDynamic(values[i]))

\* the orders in which n concurrent encodes can complete
CompletionOrders(n) ==
    {order \in [1..n -> 1..n] : \A i, j \in 1..n : order[i] = order[j] => i = j}

\* a forEach that collects the results in the order the effects complete
forEachAsCompleted(results, order) == [k \in 1..Len(results) |-> results[order[k]]]

\* Effect.forEach(dynamicParts.values(), ..., { concurrency: 'unbounded' }): the array of
\* results is in the order of the input, whatever the order of completion
forEach(results, order) == results

\* the loop over values: staticParts.get(i) for a static slot, computed[computedIndex++]
\* for a dynamic one
computedStrings(values, computed) ==
    [i \in 1..Len(values) |->
        IF isDynamic(values[i])
        THEN computed[Cardinality({j \in 1..i : isDynamic(values[j])})]
        ELSE StringValue(staticPart(values[i]))]

\* an encoder of a repeated parameter finds its value only at the first of its slots
encoderInputFirstOnly(input, values, i) ==
    IF \E j \in 1..(i - 1) : isField(values[j]) /\ values[j].name = values[i].name
    THEN [input EXCEPT ![values[i].name] = Absent]
    ELSE input

\* encode(name === null ? {} : input[name]): every encoder reads the one input record
encoderInput(input, values, i) == input

RECURSIVE encodeWith(_, _, _, _, _, _)
RECURSIVE slotResults(_, _, _, _, _)
\* the possible results of the encode compileParameters stores for slot i, built by a
\* compileParameters that ran with indent = shouldDedent
slotResults(d, value, input, shouldDedent, cache) ==
    CASE value.kind = "Effect" ->
            {IF value.codec = "succeed" THEN Succeeded(StringValue(value.text))
                                        ELSE Failed("E", {})}
      [] value.kind = "Parameter" ->
            {encode_(value.codec, Property(input, value.name))}
      [] value.kind = "Template" ->
            {IF o.kind = "ok" THEN Succeeded(StringValue(o.output))
                              ELSE Failed(o.kind, o.issues) :
                o \in encodeWith(d, value.name,
                                 [Property(input, value.name) EXCEPT !.present = TRUE],
                                 shouldDedent,
                                 dynamicPartsIndent(value.name, shouldDedent), cache)}

\* Schema.encode of the schema compileParametersSchema(t, indent) builds: the Struct
\* of the fields validates the input, then the slots are evaluated concurrently and
\* the first failure ends the evaluation, else processTemplate assembles the output;
\* shouldDedent is the indent of this compileParametersSchema call, partsDedent the
\* indent of the compileParameters call that built the dynamicParts it uses
encodeWith(d, t, input, shouldDedent, partsDedent, cache) ==
    LET values  == d[t].values
        issues  == IF input.present THEN StructIssues(d, t, input, <<>>)
                                    ELSE {Issue("Type", <<>>)}
        results == [i \in 1..Len(values) |->
                      IF isDynamic(values[i])
                      THEN slotResults(d, values[i], encoderInput(input, values, i),
                                       partsDedent, cache)
                      ELSE {Succeeded(StringValue(staticPart(values[i])))}]
        failing == {i \in 1..Len(values) : \E r \in results[i] : ~r.ok}
        dynamic == dynamicIndexes(values)
        choices == {ch \in [1..Len(dynamic) -> UNION {results[i] : i \in 1..Len(values)}] :
                       \A k \in 1..Len(dynamic) : ch[k] \in results[dynamic[k]]}
    IN  IF issues # {}
        THEN {Outcome("ParseError", <<>>, issues,
                      {i \in 1..Len(values) :
                          isField(values[i]) /\ \E e \in issues : e.path[1] = values[i].name})}
        ELSE IF failing # {}
        THEN {Outcome("ParseError", <<>>, {Issue("Transformation", <<>>)}, {i}) :
                i \in failing}
        ELSE {Outcome("ok",
                      processTemplateCached(cache, t, d[t].template,
                          computedStrings(values,
                              forEach([k \in 1..Len(dynamic) |-> ch[k].value], order)),
                          shouldDedent),
                      {}, {}) :
                 ch \in choices, order \in CompletionOrders(Len(dynamic))}

\* the encode of a template the caller invokes: compile and compileStream classify the
\* TemplateImpl under the template's own indent
encodeTemplate(d, t, input, shouldDedent, cache) ==
    encodeWith(d, t, input, shouldDedent, shouldDedent, cache)

RECURSIVE encodeIndentCacheWith(_, _, _, _, _, _, _)
\* the indentCache after that encode: every Template slot of a valid input ran its own
\* processTemplate, and so did t when no slot failed
encodeIndentCacheWith(d, t, input, shouldDedent, partsDedent, cache, i) ==
    LET values == d[t].values
    IN  IF StructIssues(d, t, input, <<>>) # {} THEN cache
        ELSE IF i > Len(values)
        THEN IF \E o \in encodeWith(d, t, input, shouldDedent, partsDedent, cache) :
                    o.kind = "ok"
             THEN indentCacheAfter(cache, t, d[t].template, values, shouldDedent)
             ELSE cache
        ELSE IF values[i].kind = "Template"
        THEN encodeIndentCacheWith(d, t, input, shouldDedent, partsDedent,
                 encodeIndentCacheWith(d, values[i].name,
                     [Property(input, values[i].name) EXCEPT !.present = TRUE],
                     partsDedent, dynamicPartsIndent(values[i].name, partsDedent), cache, 1),
                 i + 1)
        ELSE encodeIndentCacheWith(d, t, input, shouldDedent, partsDedent, cache, i + 1)

encodeIndentCache(d, t, input, shouldDedent, cache, i) ==
    encodeIndentCacheWith(d, t, input, shouldDedent, shouldDedent, cache, i)

\* TemplateFailure.fromParseError under Effect.catchTag('ParseError', ...)
fromParseError(o) ==
    IF o.kind = "ParseError" THEN [o EXCEPT !.kind = "TemplateFailure"] ELSE o


\* the stream compileStream returns, as far as it fails: no Struct validates the
\* parameters, each slot's own failure ends the stream as it is; the chunks of a stream
\* that does not fail are the subject of StreamStart .. FlushDone
streamOutcomes(d, t, input, shouldDedent, cache) ==
    LET values  == d[t].values
        results == [i \in 1..Len(values) |->
                      IF isDynamic(values[i])
                      THEN slotResults(d, values[i], input, shouldDedent, cache)
                      ELSE {Succeeded(StringValue(staticPart(values[i])))}]
        failing == {i \in 1..Len(values) : \E r \in results[i] : ~r.ok}
    IN  IF failing # {}
        THEN UNION {{Outcome(r.kind, <<>>, r.issues, {i}) : r \in {x \in results[i] : ~x.ok}} :
                      i \in failing}
        ELSE {Outcome("ok", <<>>, {}, {})}

RECURSIVE streamIndentCache(_, _, _, _, _, _)
\* the indentCache after the slots of the stream ran: only Template slots call
\* processTemplate
streamIndentCache(d, t, input, shouldDedent, cache, i) ==
    LET values == d[t].values
    IN  IF i > Len(values) THEN cache
        ELSE IF values[i].kind = "Template"
        THEN streamIndentCache(d, t, input, shouldDedent,
                 encodeIndentCacheWith(d, values[i].name,
                     [Property(input, values[i].name) EXCEPT !.present = TRUE],
                     shouldDedent, dynamicPartsIndent(values[i].name, shouldDedent),
                     cache, 1),
                 i + 1)
        ELSE streamIndentCache(d, t, input, shouldDedent, cache, i + 1)

Call(t, entry, params, result) ==
    [name |-> t, entry |-> entry, params |-> params, result |-> result]

\* the thrown Error('Invalid template value: ...')
InvalidTemplateValue == Outcome("InvalidTemplateValue", <<>>, {}, {})

NoRuns == [t \in Templates |-> 0]

InitEntryPoints ==
    /\ defs \in Definitions
    /\ given \in ParameterRecords
    /\ compiled = [t \in Templates |-> FALSE]
    /\ streamed = [t \in Templates |-> FALSE]
    /\ compileParametersSchemaCache = {}
    /\ indentCache = [t \in Templates |-> <<>>]
    /\ runs = [compile |-> NoRuns, compileStream |-> NoRuns, classified |-> NoRuns]
    /\ calls = <<>>
    /\ partsIndent = [t \in Templates |-> <<>>]
    /\ segs = << <<>> >>
    /\ vals = <<>>
    /\ indent = FALSE
    /\ minIndentOf = 0
    /\ output = <<>>
    /\ applied = NoCall
    /\ StreamIdle

\* compileParametersSchemaCache.set(t, { fields, staticParts, dynamicParts, parts }):
\* the dynamicParts of a lifted template cached by this compile hold encoders built
\* with the indent of this compile
partsIndentAfter(before, after, shouldDedent) ==
    [n \in Templates |-> IF LiftedKey(n) \in after \ before THEN <<shouldDedent>>
                                                              ELSE partsIndent[n]]

\* Effect.map((output) => ({ name: template.name, params, output }))
returned(t, params, o) ==
    IF o.kind = "ok"
    THEN [name |-> t, params |-> params, output |-> o.output, kind |-> "ok",
          issues |-> {}, failed |-> {}]
    ELSE o

\* lifted(params): compile on first use, then run the compiled render
lifted(t, params) ==
    /\ Len(calls) < MaxCalls
    /\ LET c == IF compiled[t]
                THEN Classified(FALSE, compileParametersSchemaCache, runs.classified)
                ELSE compileParameters(defs, ImplKey(t), compileParametersSchemaCache,
                                       runs.classified)
       IN  /\ compileParametersSchemaCache' = c.cache
           /\ partsIndent' = partsIndentAfter(compileParametersSchemaCache, c.cache,
                                              defs[t].indent)
           /\ runs' = [runs EXCEPT !.classified = c.classified,
                                   !.compile[t] = IF compiled[t] THEN @ ELSE @ + 1]
           /\ compiled' = [compiled EXCEPT ![t] = @ \/ ~c.threw]
           /\ IF c.threw
              THEN /\ calls' = Append(calls, Call(t, "render", params, InvalidTemplateValue))
                   /\ UNCHANGED indentCache
              ELSE /\ \E o \in encodeTemplate(defs, t, defaultParams(params), defs[t].indent,
                                                indentCache) :
                        calls' = Append(calls,
                                        Call(t, "render", params,
                                             returned(t, defaultParams(params),
                                                      fromParseError(o))))
                   /\ indentCache' = encodeIndentCache(defs, t, defaultParams(params),
                                                       defs[t].indent, indentCache, 1)
    /\ UNCHANGED <<defs, given, streamed>>
    /\ UNCHANGED <<segs, vals, indent, minIndentOf, syncVars, streamVars>>

\* liftedStream(params): compileStream on first use, then run the stream
liftedStream(t, params) ==
    /\ Len(calls) < MaxCalls
    /\ LET c == IF streamed[t]
                THEN Classified(FALSE, compileParametersSchemaCache, runs.classified)
                ELSE compileParameters(defs, ImplKey(t), compileParametersSchemaCache,
                                       runs.classified)
       IN  /\ compileParametersSchemaCache' = c.cache
           /\ partsIndent' = partsIndentAfter(compileParametersSchemaCache, c.cache,
                                              defs[t].indent)
           /\ runs' = [runs EXCEPT !.classified = c.classified,
                                   !.compileStream[t] = IF streamed[t] THEN @ ELSE @ + 1]
           /\ streamed' = [streamed EXCEPT ![t] = @ \/ ~c.threw]
           /\ IF c.threw
              THEN /\ calls' = Append(calls, Call(t, "stream", params, InvalidTemplateValue))
                   /\ UNCHANGED indentCache
              ELSE /\ \E o \in streamOutcomes(defs, t, defaultParams(params), defs[t].indent,
                                                indentCache) :
                        calls' = Append(calls, Call(t, "stream", params, o))
                   /\ indentCache' = streamIndentCache(defs, t, defaultParams(params),
                                                       defs[t].indent, indentCache, 1)
    /\ UNCHANGED <<defs, given, compiled>>
    /\ UNCHANGED <<segs, vals, indent, minIndentOf, syncVars, streamVars>>

NextEntryPoints ==
    \E t \in EntryPointTemplates :
        \/ \E params \in {given, ValidParameters} : lifted(t, params)
        \/ DOMAIN fields(defs[t].values) = {} /\ lifted(t, Undefined)
        \/ liftedStream(t, given)

SpecEntryPoints == InitEntryPoints /\ [][NextEntryPoints]_vars

\* the chain of nested templates, every template still to be compiled
InitNesting ==
    /\ defs \in ChainDefinitions
    /\ given = ValidParameters
    /\ compiled = [t \in Templates |-> FALSE]
    /\ streamed = [t \in Templates |-> FALSE]
    /\ compileParametersSchemaCache = {}
    /\ indentCache = [t \in Templates |-> <<>>]
    /\ runs = [compile |-> NoRuns, compileStream |-> NoRuns, classified |-> NoRuns]
    /\ calls = <<>>
    /\ partsIndent = [t \in Templates |-> <<>>]
    /\ segs = << <<>> >>
    /\ vals = <<>>
    /\ indent = FALSE
    /\ minIndentOf = 0
    /\ output = <<>>
    /\ applied = NoCall
    /\ StreamIdle

\* the caller invokes A and its two parents, in any order
NextNesting ==
    \E t \in {"A", "B", "D"} :
        \/ lifted(t, given)
        \/ liftedStream(t, given)

SpecNesting == InitNesting /\ [][NextNesting]_vars

\* the values of every type a slot is declared with, and some that are of none
SlotValues ==
    {NullValue, UndefinedValue, Primitive(<<X>>), NumberValue(<<"1">>), BooleanValue(TRUE),
     BooleanValue(FALSE), BigintValue(<<"1">>), EffectValue("succeed"),
     Parameter("p", "String"), TemplateValue("A"), UnsafeSlot(<<X, NL, X>>), InvalidValue}

\* B = template('B') of two slots of any kind; A has the parameter p
SlotDefinitions ==
    {[t \in Templates |-> CASE t = "A" -> TemplateImpl(StringsOfA, <<Parameter("p", "String")>>,
                                                       FALSE)
                            [] t = "B" -> TemplateImpl(StringsOfB, <<v1, v2>>, FALSE)
                            [] t = "C" -> ImplOfC
                            [] t = "D" -> ImplOfD(FALSE)] :
        v1 \in SlotValues, v2 \in SlotValues}

InitSlots ==
    /\ defs \in SlotDefinitions
    /\ given = ValidParameters
    /\ compiled = [t \in Templates |-> FALSE]
    /\ streamed = [t \in Templates |-> FALSE]
    /\ compileParametersSchemaCache = {}
    /\ indentCache = [t \in Templates |-> <<>>]
    /\ runs = [compile |-> NoRuns, compileStream |-> NoRuns, classified |-> NoRuns]
    /\ calls = <<>>
    /\ partsIndent = [t \in Templates |-> <<>>]
    /\ segs = << <<>> >>
    /\ vals = <<>>
    /\ indent = FALSE
    /\ minIndentOf = 0
    /\ output = <<>>
    /\ applied = NoCall
    /\ StreamIdle

\* the caller renders and streams B
NextSlots ==
    \/ lifted("B", given)
    \/ liftedStream("B", given)

SpecSlots == InitSlots /\ [][NextSlots]_vars

---------------------------------------------------------------------------
(* Claims about the entry points *)

NoIndentCache == [t \in Templates |-> <<>>]

Marker == <<"@">>

RECURSIVE ReplaceMarker(_, _)
\* text with every marker character replaced by content
ReplaceMarker(text, content) ==
    IF text = <<>> THEN <<>>
    ELSE (IF Head(text) = "@" THEN content ELSE <<Head(text)>>)
         \o ReplaceMarker(Tail(text), content)

isUnsafeParameter(value) == value.kind = "Parameter" /\ value.codec = "UnsafeFromString"

\* the call reads p for an Unsafe slot of the invoked template
DirectUnsafe(c) ==
    \E i \in 1..Len(defs[c.name].values) :
        isUnsafeParameter(defs[c.name].values[i]) /\ defs[c.name].values[i].name = "p"

\* the call reads A.p for an Unsafe slot of the template nested in the invoked one
NestedUnsafe(c) ==
    /\ \E i \in 1..Len(defs[c.name].values) : defs[c.name].values[i] = TemplateValue("A")
    /\ isUnsafeParameter(defs["A"].values[1])

\* the output of the synchronous render of t with params, when it succeeds
OutputsOf(t, params) ==
    {o.output : o \in {x \in encodeTemplate(defs, t, params, defs[t].indent, NoIndentCache) :
                          x.kind = "ok"}}

\* C11: the content of an Unsafe value appears in the output exactly as supplied: the
\* output is the output rendered for a one-character content with that character
\* replaced by the supplied content, for an Unsafe slot of the invoked template and
\* for one of a template nested in it
C11_UnsafeVerbatim ==
    \A k \in 1..Len(calls) :
        LET c == calls[k]
        IN  (c.entry = "render" /\ c.result.kind = "ok") =>
              /\ DirectUnsafe(c) =>
                   \A marked \in OutputsOf(c.name, [c.params EXCEPT !.p.text = Marker]) :
                      c.result.output = ReplaceMarker(marked, c.params.p.text)
              /\ NestedUnsafe(c) =>
                   \A marked \in OutputsOf(c.name, [c.params EXCEPT !.A.p.text = Marker]) :
                      c.result.output = ReplaceMarker(marked, c.params.A.p.text)

\* the Parameter slots of the invoked template whose value its own codec does not
\* accept or cannot encode
FailingSlots(c) ==
    {i \in 1..Len(defs[c.name].values) :
        /\ defs[c.name].values[i].kind = "Parameter"
        /\ ~encode_(defs[c.name].values[i].codec, c.params[defs[c.name].values[i].name]).ok}

\* C12: when the values of several dynamic slots of one synchronous render fail their
\* codec, the render returns one validation failure that reports every failing slot
C12_FailuresAccumulated ==
    \A k \in 1..Len(calls) :
        LET c == calls[k]
        IN  (/\ c.entry = "render"
             /\ c.result.kind # "InvalidTemplateValue"
             /\ Cardinality(FailingSlots(c)) >= 2) =>
              /\ c.result.kind = "TemplateFailure"
              /\ FailingSlots(c) \subseteq c.result.failed

\* C13: when the computation of a raw Effect slot fails with E, the synchronous render
\* fails with E itself, not with a TemplateFailure, and carries no validation issue
C13_EffectFailureAsIs ==
    \A k \in 1..Len(calls) :
        LET c == calls[k]
        IN  (/\ c.entry = "render"
             /\ \E i \in c.result.failed : defs[c.name].values[i] = EffectValue("fail")) =>
              /\ c.result.kind = "E"
              /\ c.result.issues = {}

\* C14: a malformed template is reported when it is constructed or compiled: no
\* invocation of render or stream is what reports the invalid template value
C14_MalformedNotDeferred ==
    \A k \in 1..Len(calls) : calls[k].result.kind # "InvalidTemplateValue"

\* two Parameters of t declare the same name with different schemas
ConflictingParameters(t) ==
    \E i, j \in 1..Len(defs[t].values) :
        /\ i < j
        /\ defs[t].values[i].kind = "Parameter"
        /\ defs[t].values[j].kind = "Parameter"
        /\ defs[t].values[i].name = defs[t].values[j].name
        /\ defs[t].values[i].codec # defs[t].values[j].codec

\* C15: compiling a template that declares two Parameters of one name with different
\* schemas fails: neither entry point of such a template is ever compiled
C15_ConflictingNamesRejected ==
    \A t \in Templates : ConflictingParameters(t) => (~compiled[t] /\ ~streamed[t])

\* C16: over any invocations of one template, the slots of a template are classified
\* at most once and each entry point's compile function runs at most once
C16_CompiledOnce ==
    (\A k \in 1..Len(calls) : calls[k].name = calls[1].name) =>
        \A t \in Templates :
            /\ runs.classified[t] <= 1
            /\ runs.compile[t] <= 1
            /\ runs.compileStream[t] <= 1

\* C17: two synchronous renders of one template with equal parameters return equal
\* output, whatever was invoked in between: both succeed with the same text or both fail
C17_SameParametersSameOutput ==
    \A i, j \in 1..Len(calls) :
        (/\ i < j
         /\ calls[i].entry = "render"
         /\ calls[j].entry = "render"
         /\ calls[i].name = calls[j].name
         /\ calls[i].params = calls[j].params) =>
            /\ (calls[i].result.kind = "ok") = (calls[j].result.kind = "ok")
            /\ calls[i].result.output = calls[j].result.output

\* C17 witness: a dedent template rendered twice with the same parameters, with success,
\* and another template, entry point or parameter record invoked in between
C17_Witness ==
    /\ Len(calls) = 3
    /\ defs[calls[1].name].indent
    /\ calls[1].entry = "render"
    /\ calls[3].entry = "render"
    /\ calls[1].name = calls[3].name
    /\ calls[1].params = calls[3].params
    /\ calls[1].result.kind = "ok"
    /\ calls[3].result.kind = "ok"
    /\ \/ calls[2].name # calls[1].name
       \/ calls[2].entry = "stream"
       \/ calls[2].params # calls[1].params

ParameterNames(t) ==
    {defs[t].values[i].name :
        i \in {j \in 1..Len(defs[t].values) : defs[t].values[j].kind = "Parameter"}}

\* the parameters of t that have a codec for which an absent value is not acceptable
RequiredNames(t) ==
    {defs[t].values[i].name :
        i \in {j \in 1..Len(defs[t].values) :
                  /\ defs[t].values[j].kind = "Parameter"
                  /\ defs[t].values[j].codec # "ArbitraryJson"}}

NestsA(t) == \E i \in 1..Len(defs[t].values) : defs[t].values[i] = TemplateValue("A")

\* the paths of the required fields the caller left out: parameters of the invoked
\* template, and parameters of the nested template under its name
OmittedPaths(c) ==
    {<<name>> : name \in {n \in RequiredNames(c.name) : c.params[n] = Absent}}
    \cup (IF NestsA(c.name)
          THEN {<<"A", name>> : name \in {n \in RequiredNames("A") : c.params.A[n] = Absent}}
          ELSE {})

\* C18: a synchronous render that is given no value for a required parameter, at the
\* top level or in the sub-record under the nested template's name, fails with a
\* validation failure that has an issue with the path of each such field; and a render
\* of a template that nests A and declares no p of its own reads A's p from the
\* sub-record: its output is the same when the caller's own p is left out
C18_NestedParametersBySubRecord ==
    \A k \in 1..Len(calls) :
        LET c == calls[k]
        IN  (c.entry = "render" /\ c.result.kind # "InvalidTemplateValue") =>
              /\ OmittedPaths(c) # {} =>
                   /\ c.result.kind = "TemplateFailure"
                   /\ \A path \in OmittedPaths(c) : \E e \in c.result.issues : e.path = path
              /\ (c.result.kind = "ok" /\ NestsA(c.name) /\ "p" \notin ParameterNames(c.name)) =>
                   c.result.output \in OutputsOf(c.name, [c.params EXCEPT !.p = Absent])

\* C18 witness: the caller gives p at the top level but not in the sub-record of the
\* nested template, and the render fails with an issue at A.p; an earlier render of
\* the same template with the nested p given succeeded
C18_Witness ==
    /\ Len(calls) >= 2
    /\ calls[1].name = calls[2].name
    /\ NestsA(calls[1].name)
    /\ calls[1].entry = "render"
    /\ calls[1].result.kind = "ok"
    /\ calls[1].params.p # Absent
    /\ calls[2].entry = "render"
    /\ calls[2].params.p # Absent
    /\ calls[2].params.A.p = Absent
    /\ calls[2].result.kind = "TemplateFailure"
    /\ \E e \in calls[2].result.issues : e.path = <<"A", "p">>

RECURSIVE PlainText(_, _)
\* segment 0 + value 0 + segment 1 + ... of template t, each value being the static
\* text, the text of the Effect, the encoded parameter or the plain text of the nested
\* template
PlainText(t, input) ==
    LET values == defs[t].values
        text(i) ==
            CASE values[i].kind = "Template" ->
                    PlainText(values[i].name, Property(input, values[i].name))
              [] values[i].kind = "Parameter" ->
                    encode_(values[i].codec, input[values[i].name]).value.content
              [] OTHER -> values[i].text
    IN  Concat([k \in 1..(2 * Len(values) + 1) |->
                  IF k % 2 = 1 THEN defs[t].template[(k + 1) \div 2] ELSE text(k \div 2)])

\* C19: the synchronous render of a template that is not a dedent template returns
\* segment 0 + value 0 + segment 1 + ... + segment N with nothing added, removed or
\* changed
C19_PlainInterleave ==
    \A k \in 1..Len(calls) :
        LET c == calls[k]
        IN  (c.entry = "render" /\ c.result.kind = "ok" /\ ~defs[c.name].indent) =>
              c.result.output = PlainText(c.name, c.params)

\* C19 witness: a successful render of the two-slot template, not dedenting, with a
\* nested template and a multi-line parameter value
C19_Witness ==
    \E k \in 1..Len(calls) :
        /\ calls[k].entry = "render"
        /\ calls[k].result.kind = "ok"
        /\ calls[k].name = "B"
        /\ ~defs["B"].indent
        /\ NestsA("B")
        /\ calls[k].params.A.p = StringInput
        /\ Len(calls[k].result.output) > Len(Concat(StringsOfB))

\* C20: a stream of a well-formed template fails only with the error of a slot's own
\* Effect or with a TemplateFailure: a parameter value its codec rejects makes the
\* stream fail with a TemplateFailure, as the synchronous render does
C20_StreamFailureKinds ==
    \A k \in 1..Len(calls) :
        (calls[k].entry = "stream" /\ calls[k].result.kind # "InvalidTemplateValue") =>
            calls[k].result.kind \in {"ok", "E", "TemplateFailure"}


RECURSIVE RenderedUnder(_, _, _)
\* template t rendered under dedent setting s, and so every template nested in it, at
\* any depth: a nested template's output is the value of its slot
RenderedUnder(d, t, s) ==
    processTemplate(d[t].template,
                    [i \in 1..Len(d[t].values) |->
                        IF d[t].values[i].kind = "Template"
                        THEN StringValue(RenderedUnder(d, d[t].values[i].name, s))
                        ELSE StringValue(d[t].values[i].text)],
                    s)

\* C21: a nested template is rendered under the dedent setting of the template that is
\* invoked, whatever constructor declared it: in a dedent render its common indentation
\* is removed and its continuation lines are re-indented to the line it is inserted on,
\* in a plain render its text is inserted as declared
C21_NestedUnderInvokedSetting ==
    \A k \in 1..Len(calls) :
        (calls[k].entry = "render" /\ calls[k].result.kind = "ok") =>
            calls[k].result.output =
                RenderedUnder(defs, calls[k].name, defs[calls[k].name].indent)

\* the same Parameter stands in two slots of t
RepeatsParameter(t) ==
    \E i, j \in 1..Len(defs[t].values) :
        i < j /\ defs[t].values[i].kind = "Parameter" /\ defs[t].values[i] = defs[t].values[j]

\* C22: a Parameter that stands in several slots of a template is one key of the
\* parameter record: the render succeeds exactly when that one value is accepted, and
\* every one of the slots holds the encoding of that value
C22_RepeatedParameterOneKey ==
    \A k \in 1..Len(calls) :
        LET c      == calls[k]
            values == defs[c.name].values
            v      == Property(c.params, values[1].name)
        IN  (c.entry = "render" /\ RepeatsParameter(c.name)) =>
              /\ DOMAIN fields(values) = {values[1].name}
              /\ (c.result.kind = "ok") = typeSchema(values[1].codec, v)
              /\ c.result.kind = "ok" =>
                    c.result.output =
                        processTemplate(defs[c.name].template,
                                        [i \in 1..Len(values) |->
                                            schemaEncode(values[i].codec, v).value],
                                        defs[c.name].indent)

\* C22 witness: a successful dedent render of the template whose two slots are the same
\* Parameter, with a multi-line value
C22_Witness ==
    \E k \in 1..Len(calls) :
        /\ calls[k].entry = "render"
        /\ calls[k].result.kind = "ok"
        /\ RepeatsParameter(calls[k].name)
        /\ defs[calls[k].name].indent
        /\ calls[k].params.p = StringInput

\* the field map of t is empty and every slot of t has a text
OnlyStaticAndEffects(t) ==
    /\ DOMAIN fields(defs[t].values) = {}
    /\ \A i \in 1..Len(defs[t].values) :
           \/ defs[t].values[i].kind = "Primitive"
           \/ defs[t].values[i].kind = "Effect" /\ defs[t].values[i].codec = "succeed"

\* C23: a template with an empty field map, invoked without a parameter record, renders
\* successfully: the result of an Effect slot is inserted as text, and the caller gets
\* the template's name, the empty record and the output
C23_NoParameterRecord ==
    \A k \in 1..Len(calls) :
        LET c == calls[k]
        IN  (c.entry = "render" /\ c.params = Undefined /\ OnlyStaticAndEffects(c.name)) =>
              /\ c.result.kind = "ok"
              /\ c.result.name = c.name
              /\ c.result.params = NoParameters
              /\ c.result.output =
                     processTemplate(defs[c.name].template,
                                     [i \in 1..Len(defs[c.name].values) |->
                                         StringValue(defs[c.name].values[i].text)],
                                     defs[c.name].indent)

\* C23 witness: the template of an Effect slot and a static slot was invoked without
\* a parameter record and rendered
C23_Witness ==
    \E k \in 1..Len(calls) :
        /\ calls[k].entry = "render"
        /\ calls[k].params = Undefined
        /\ calls[k].result.kind = "ok"
        /\ defs[calls[k].name].values[1].kind = "Effect"
        /\ defs[calls[k].name].values[2].kind = "Primitive"

\* the values the slots of call c produce, each at its own slot
OwnValues(c) ==
    LET values == defs[c.name].values
        own(i) == IF isDynamic(values[i])
                  THEN {r.value : r \in {x \in slotResults(defs, values[i],
                                                           defaultParams(c.params),
                                                           defs[c.name].indent,
                                                           NoIndentCache) : x.ok}}
                  ELSE {StringValue(values[i].text)}
    IN  {f \in [1..Len(values) -> UNION {own(i) : i \in 1..Len(values)}] :
            \A i \in 1..Len(values) : f[i] \in own(i)}

\* C30: the synchronous render encodes its dynamic slots concurrently and its output
\* has every slot's result at that slot's position, in whatever order the encodes
\* complete and however static and dynamic slots alternate
C30_ResultsAtOwnSlot ==
    \A k \in 1..Len(calls) :
        LET c == calls[k]
        IN  (c.entry = "render" /\ c.result.kind = "ok") =>
              c.result.output \in
                  {processTemplate(defs[c.name].template, f, defs[c.name].indent) :
                      f \in OwnValues(c)}

\* C30 witness: a successful render of a template with two dynamic slots whose results
\* differ
C30_Witness ==
    \E k \in 1..Len(calls) :
        /\ calls[k].entry = "render"
        /\ calls[k].result.kind = "ok"
        /\ Len(dynamicIndexes(defs[calls[k].name].values)) = 2
        /\ \E f \in OwnValues(calls[k]) : f[1] # f[2]

\* the textual form of a primitive
TextualForm(value) ==
    CASE value = BooleanValue(TRUE)  -> <<"t", "r", "u", "e">>
      [] value = BooleanValue(FALSE) -> <<"f", "a", "l", "s", "e">>
      [] value = BigintValue(<<"1">>) -> <<"1">>
      [] value = NumberValue(<<"1">>) -> <<"1">>
      [] value = Primitive(<<X>>)     -> <<X>>

\* the kinds of value the classification knows
ClassifiedKinds ==
    {"null", "undefined", "Primitive", "number", "boolean", "bigint", "Effect", "Parameter",
     "Template"}

\* the slot table of template t is the one the claim describes
ClassifiedAsSpecified(t) ==
    LET values == defs[t].values
        cp     == CompiledParameters(defs, values)
    IN  \A i \in 1..Len(values) :
            CASE values[i].kind \in {"null", "undefined"} ->
                    /\ cp.parts[i] = "static"
                    /\ cp.staticParts[i] = <<>>
                    /\ i \notin DOMAIN cp.dynamicParts
              [] values[i].kind \in {"Primitive", "number", "boolean", "bigint"} ->
                    /\ cp.parts[i] = "static"
                    /\ cp.staticParts[i] = TextualForm(values[i])
                    /\ i \notin DOMAIN cp.dynamicParts
              [] values[i].kind = "Effect" ->
                    /\ cp.parts[i] = "dynamic"
                    /\ cp.dynamicParts[i] = <<>>
                    /\ i \notin DOMAIN cp.staticParts
                    /\ \A name \in DOMAIN cp.fields :
                           \E j \in 1..Len(values) :
                               values[j].kind \in {"Parameter", "Template"}
                               /\ values[j].name = name
              [] values[i].kind = "Parameter" ->
                    /\ cp.parts[i] = "dynamic"
                    /\ cp.dynamicParts[i] = <<values[i].name>>
                    /\ values[i].name \in DOMAIN cp.fields
              [] values[i].kind = "Template" ->
                    /\ cp.parts[i] = "dynamic"
                    /\ cp.dynamicParts[i] = <<values[i].name>>
                    /\ values[i].name \in DOMAIN cp.fields
                    /\ cp.fields[values[i].name] =
                           <<"Struct",
                             CompiledParameters(defs, defs[values[i].name].values).fields>>

\* C32: the classification of the slots at compile time: null and undefined are static
\* empty strings, a string, number, boolean or bigint is a static slot with its textual
\* form, an Effect is a dynamic slot without a name and without a field, a Parameter and
\* a nested Template are dynamic slots under their name, the Template with its own
\* compiled fields; a template with any other value raises the invalid-template-value
\* error at every invocation, and the loop runs once for a template that compiles
C32_SlotClassification ==
    /\ runs.classified["B"] <= 1 \/ ImplKey("B") \notin compileParametersSchemaCache
    /\ \A k \in 1..Len(calls) :
           (calls[k].result = InvalidTemplateValue)
               <=> (\E i \in 1..Len(defs["B"].values) :
                        defs["B"].values[i].kind \notin ClassifiedKinds)
    /\ ImplKey("B") \in compileParametersSchemaCache => ClassifiedAsSpecified("B")

\* C32 witness: a template with a bigint and a nested Template was compiled once and
\* invoked twice
C32_Witness ==
    /\ defs["B"].values = <<BigintValue(<<"1">>), TemplateValue("A")>>
    /\ ImplKey("B") \in compileParametersSchemaCache
    /\ runs.classified["B"] = 1
    /\ Len(calls) = 2
    /\ calls[2].result.kind = "ok"

\* the types Template.AnyParamType declares
DeclaredKinds == ClassifiedKinds \cup {"Unsafe"}

\* C39: every value of a declared slot type is accepted by the compilation: a template
\* whose slots are primitives, Parameters, Effects, Templates or Unsafe values never
\* raises the invalid-template-value error
C39_DeclaredTypesAccepted ==
    (\A i \in 1..Len(defs["B"].values) : defs["B"].values[i].kind \in DeclaredKinds)
        => \A k \in 1..Len(calls) : calls[k].result # InvalidTemplateValue

\* the output of template t when it is the first template compiled in the process: every
\* encoder of its nesting is built by its own compile, under its own dedent setting
RenderedFirst(t) == RenderedUnder(defs, t, defs[t].indent)

\* the first invocation of a process renders as RenderedFirst says
FirstRenderIsReference ==
    (Len(calls) >= 1 /\ calls[1].entry = "render" /\ calls[1].result.kind = "ok") =>
        calls[1].result.output = RenderedFirst(calls[1].name)

\* C38: the output of a template does not depend on the templates compiled or rendered
\* before it: a parent of the shared nested template A that is rendered after the other
\* parent was compiled has the output it has when it is compiled first
C38_IndependentOfCompileOrder ==
    \A k \in 2..Len(calls) :
        LET c == calls[k]
        IN  (/\ c.name \in {"B", "D"}
             /\ c.entry = "render"
             /\ c.result.kind = "ok"
             /\ \E l \in 1..(k - 1) : calls[l].name \in {"B", "D"} \ {c.name})
            => c.result.output = RenderedFirst(c.name)

====
